---- MODULE Spec2Model ----
(***************************************************************************)
(* nwin: the event channel (src/lib.rs) and the Win32 window registry,     *)
(* window handle and native message decoder (src/platform/win32.rs).       *)
(*                                                                         *)
(* The native subsystem (window creation and destruction, the per-window   *)
(* message queue, synchronous delivery of notifications to the window      *)
(* procedure) is the environment; everything else is translated from the   *)
(* Rust source.  A handler that calls the window procedure synchronously   *)
(* (DestroyWindow inside WM_CLOSE, the pump inside next_event) is one      *)
(* action: handlers are operators over a record of the state, composed     *)
(* the way the calls nest.                                                 *)
(***************************************************************************)
EXTENDS Integers, Sequences, FiniteSets, TLC

VARIABLES
    WINDOW_INFO,  \* the registry: HashMap<isize, WindowInfo>
    poisoned,     \* the registry RwLock was poisoned by a panic under write()
    CLASS_ID,     \* AtomicU16, 0 while no window class is registered
    native,       \* per native handle: lifetime, posted-message queue, style,
                  \* and the history of the key notifications it delivered
    handles,      \* Arc::strong_count of the Window handles per hwnd
    events,       \* EventReceiver.events of the one EventLoop
    ids,          \* EventLoop.ids
    status,       \* "running", "panicked" (unwinding) or "aborted"
    last,         \* the operation that ran last and what it returned
    sent,         \* history: number of events appended to the queue
    taken,        \* history: number of events handed to the consumer
    lost,         \* history: number of sends on an unbound sender
    posts,        \* history: number of messages posted by the environment
    removed,      \* history: handles whose registry entry was removed
    destroyed,    \* history: windows whose Destroyed event was appended
    pc,           \* per thread: the operation it is in and where
    locks         \* per RwLock: the guards alive, each with thread and mode

vars == <<WINDOW_INFO, poisoned, CLASS_ID, native, handles, events, ids,
          status, last, sent, taken, lost, posts, removed, destroyed, pc, locks>>

(***************************************************************************)
(* Bounds                                                                  *)
(***************************************************************************)
MaxWindows == 2
MaxPending == 1
MaxPosts == 2
MaxClones == 2
MaxAtom == 1
ScreenW == 3
ScreenH == 2
MaxLive == 1
MaxKeys == 4
MaxSends == 3
MaxBurst == 2

Hwnd == 1..MaxWindows

None == "None"
Rx == "receiver"

(***************************************************************************)
(* Win32 numeric codes used by the decoder                                 *)
(***************************************************************************)
CW_USEDEFAULT == (-2147483647) - 1
SIZE_RESTORED == 0
SIZE_MINIMIZED == 1
SIZE_MAXIMIZED == 2
SIZE_MAXSHOW == 3
SIZE_MAXHIDE == 4
WA_INACTIVE == 0
WA_ACTIVE == 1
WA_CLICKACTIVE == 2
SC_MAXIMIZE == 61488
SC_RESTORE == 61728
SC_NEXTWINDOW == 61504
VK_LBUTTON == 1
VK_TAB == 9
VK_RETURN == 13
VK_SHIFT == 16
VK_CONTROL == 17
VK_MENU == 18
VK_CAPITAL == 20
VK_A == 65
VK_LWIN == 91
VK_RWIN == 92
VK_NUMLOCK == 144
VK_LSHIFT == 160
VK_RSHIFT == 161
VK_LCONTROL == 162
VK_RCONTROL == 163
VK_LMENU == 164
VK_RMENU == 165

LOWORD(l) == l % 65536
HIWORD(l) == (l \div 65536) % 65536

WS_OVERLAPPEDWINDOW ==
    {"WS_CAPTION", "WS_SYSMENU", "WS_THICKFRAME", "WS_MINIMIZEBOX",
     "WS_MAXIMIZEBOX"}
WS_CLIPSIBLINGS == {"WS_CLIPSIBLINGS"}
WS_VISIBLE == {"WS_VISIBLE"}
WS_POPUP == {"WS_POPUP"}

(***************************************************************************)
(* lib.rs: the event channel                                               *)
(***************************************************************************)
EventSender_new_bound == [receiver |-> Rx]

\* EventSender::new: bound to no receiver
EventSender_new == [receiver |-> None]

EventSender_bind(sender, receiver) == [sender EXCEPT !.receiver = receiver]

recv_push_front(q, e) == <<e>> \o q

recv(q, e) == Append(q, e)

send_unbound_too(sender, q, e) == recv(q, e)

send(sender, q, e) == IF sender.receiver # None THEN recv(q, e) ELSE q

pop_front(q) == IF q = <<>> THEN <<>> ELSE Tail(q)

front(q) == IF q = <<>> THEN <<>> ELSE <<Head(q)>>

(***************************************************************************)
(* win32.rs: WindowInfo                                                    *)
(***************************************************************************)
WindowInfo_default ==
    [ visible |-> FALSE,
      x |-> CW_USEDEFAULT, y |-> CW_USEDEFAULT,
      width |-> CW_USEDEFAULT, height |-> CW_USEDEFAULT,
      min_width |-> 20, min_height |-> 20,
      max_width |-> ScreenW, max_height |-> ScreenH,
      style |-> WS_OVERLAPPEDWINDOW \cup WS_CLIPSIBLINGS,
      \* "nwin window", as UTF-16 code units
      title |-> <<110, 119, 105, 110, 32, 119, 105, 110, 100, 111, 119>>,
      focused |-> FALSE,
      resizeable |-> TRUE,
      fullscreen |-> "NotFullscreen",
      non_fullscreen_style |-> WS_OVERLAPPEDWINDOW \cup WS_CLIPSIBLINGS,
      size_state |-> "Other",
      modifiers |-> {},
      class_id |-> 0,
      no_close |-> FALSE,
      enabled_buttons |-> {"MINIMIZE", "MAXIMIZE"},   \* WindowButtons::all()
      sender |-> EventSender_new ]

(***************************************************************************)
(* The state the handlers work on, as one record                           *)
(***************************************************************************)
\* held, relock, calls and sized belong to the operation that is running:
\* whether it holds the registry's write guard while it calls the native
\* layer, what locking the registry again on the same thread does, the
\* native requests it made and the resize notifications decoded during it
St == [ info |-> WINDOW_INFO, poisoned |-> poisoned, native |-> native,
        events |-> events, status |-> status, sent |-> sent, lost |-> lost,
        removed |-> removed, destroyed |-> destroyed,
        held |-> FALSE, relock |-> "deadlocked", calls |-> <<>>, sized |-> 0 ]

Registered(s, h) == h \in DOMAIN s.info

insert(m, h, v) == (h :> v) @@ m

remove(m, h) == [k \in DOMAIN m \ {h} |-> m[k]]

or_insert(m, h, v) == IF h \in DOMAIN m THEN m ELSE insert(m, h, v)

\* a panic in Rust code: the thread unwinds; a write guard held at that
\* point poisons the lock
Panic(s, writeHeld) ==
    [s EXCEPT !.status = "panicked", !.poisoned = @ \/ writeHeld]

\* a panic inside the extern "system" window procedure cannot unwind
Abort(s) == [s EXCEPT !.status = "aborted"]

\* WINDOW_INFO.write() on the thread that already holds the write guard:
\* std's RwLock is not reentrant, the call never returns or panics
Relock(s) == [s EXCEPT !.status = s.relock]

\* WINDOW_INFO.clone().write().unwrap() in the window procedure fails
LockFails(s) == s.held \/ s.poisoned

LockFailure(s) == IF s.held THEN Relock(s) ELSE Abort(s)

\* sender.send(WindowId(hwnd), ev), with the history counters
Emit(s, h, sender, ev) ==
    [s EXCEPT !.events = send(sender, @, [id |-> h, ev |-> ev, seq |-> s.sent + 1]),
              !.sent = IF sender.receiver # None THEN @ + 1 ELSE @,
              !.lost = IF sender.receiver # None THEN @ ELSE @ + 1,
              !.destroyed = IF sender.receiver # None /\ ev.kind = "Destroyed"
                            THEN @ \cup {h} ELSE @]

(***************************************************************************)
(* The native subsystem, as far as the decoder talks to it                 *)
(***************************************************************************)
Msg(m, w, l) == [msg |-> m, wparam |-> w, lparam |-> l]

\* style is GWL_STYLE, show the show state, active whether it is the active
\* window; down is history: the modifier keys whose last notification handed
\* to the window procedure was a key-down; stale is the number of Window
\* handles still held for an earlier window that had the same handle value
NativeWindow_free ==
    [state |-> "free", queue |-> <<>>, mmi |-> None, style |-> {},
     show |-> "normal", active |-> FALSE, down |-> {}, stale |-> 0]

\* PostMessageW: append to the window's queue; fails on an invalid handle
PostMessageW(s, h, m) ==
    IF s.native[h].state = "alive"
    THEN [s EXCEPT !.native[h].queue = Append(@, m)]
    ELSE s

(***************************************************************************)
(* win32.rs: main_wnd_proc, one operator per match arm                     *)
(***************************************************************************)
\* WM_CREATE: entry(hwnd).or_insert(default).sender.send(Created)
OnCreate(s, h) ==
    IF LockFails(s) THEN LockFailure(s)
    ELSE LET m == or_insert(s.info, h, WindowInfo_default)
         IN Emit([s EXCEPT !.info = m], h, m[h].sender, [kind |-> "Created"])

OnDestroy_remove_first(s, h, wparam, lparam) ==
    LET s1 == PostMessageW(s, h, Msg("WM_DESTROY", wparam, lparam))
    IN [s1 EXCEPT !.info = remove(@, h),
                  !.removed = IF Registered(s, h) THEN @ \cup {h} ELSE @]

\* WM_DESTROY: re-post the message, send Destroyed, then remove the entry
OnDestroy(s, h, wparam, lparam) ==
    LET s1 == PostMessageW(s, h, Msg("WM_DESTROY", wparam, lparam))
    IN IF LockFails(s1) THEN LockFailure(s1)
       ELSE LET s2 == IF Registered(s1, h)
                      THEN Emit(s1, h, s1.info[h].sender, [kind |-> "Destroyed"])
                      ELSE [s1 EXCEPT !.info = insert(@, h, WindowInfo_default)]
            IN [s2 EXCEPT !.info = remove(@, h),
                          !.removed = IF Registered(s, h) THEN @ \cup {h} ELSE @]

\* DestroyWindow: the native layer sends WM_DESTROY to the window procedure,
\* then frees the window and flushes its message queue
DestroyWindow(s, h) ==
    IF s.native[h].state # "alive" THEN s
    ELSE LET s1 == OnDestroy(s, h, 0, 0)
         IN IF s1.status # "running" THEN s1
            ELSE [s1 EXCEPT !.native[h].state = "dead",
                            !.native[h].queue = <<>>]

\* WM_CLOSE: send CloseRequested if registered, else insert a default entry;
\* then DestroyWindow(hwnd)
OnClose(s, h) ==
    IF LockFails(s) THEN LockFailure(s)
    ELSE LET s1 == IF Registered(s, h)
                   THEN Emit(s, h, s.info[h].sender, [kind |-> "CloseRequested"])
                   ELSE [s EXCEPT !.info = insert(@, h, WindowInfo_default)]
         IN DestroyWindow(s1, h)

\* WM_GETMINMAXINFO: entry(hwnd).or_default(), then fill the MINMAXINFO
OnGetMinMaxInfo(s, h) ==
    IF LockFails(s) THEN LockFailure(s)
    ELSE LET m == or_insert(s.info, h, WindowInfo_default)
             entry == m[h]
         IN [s EXCEPT !.info = m,
                      !.native[h].mmi =
                          [ min_x |-> entry.min_height, min_y |-> entry.min_height,
                            max_x |-> entry.max_width, max_y |-> entry.max_height ]]

\* WM_MOVE
OnMove(s, h, lparam) ==
    LET x == LOWORD(lparam)
        y == HIWORD(lparam)
    IN IF LockFails(s) THEN LockFailure(s)
       ELSE IF Registered(s, h)
       THEN Emit([s EXCEPT !.info[h].x = x, !.info[h].y = y], h,
                 s.info[h].sender, [kind |-> "Moved", x |-> x, y |-> y])
       ELSE [s EXCEPT !.info = insert(@, h, WindowInfo_default)]

OnSize_minimized_as_restored(s, h, wparam, lparam) ==
    LET width == LOWORD(lparam)
        height == HIWORD(lparam)
    IN IF wparam \in {SIZE_RESTORED, SIZE_MINIMIZED} /\ ~LockFails(s)
          /\ Registered(s, h)
       THEN Emit([s EXCEPT !.info[h].width = width,
                           !.info[h].height = height,
                           !.info[h].size_state = "Other"], h,
                 s.info[h].sender,
                 [kind |-> "Resized", width |-> width, height |-> height])
       ELSE s

\* WM_SIZE
OnSize(s, h, wparam, lparam) ==
    LET width == LOWORD(lparam)
        height == HIWORD(lparam)
    IN CASE wparam = SIZE_RESTORED ->
              IF LockFails(s) THEN LockFailure(s)
              ELSE IF Registered(s, h)
              THEN Emit([s EXCEPT !.info[h].width = width,
                                  !.info[h].height = height,
                                  !.info[h].size_state = "Other"], h,
                        s.info[h].sender,
                        [kind |-> "Resized", width |-> width, height |-> height])
              ELSE s
         [] wparam = SIZE_MINIMIZED ->
              IF LockFails(s) THEN LockFailure(s)
              ELSE IF Registered(s, h)
              THEN [s EXCEPT !.info[h].size_state = "Minimized"]
              ELSE s
         [] wparam = SIZE_MAXIMIZED ->
              IF LockFails(s) THEN LockFailure(s)
              ELSE IF Registered(s, h)
              THEN [s EXCEPT !.info[h].size_state = "Maximized"]
              ELSE s
         [] wparam \in {SIZE_MAXSHOW, SIZE_MAXHIDE} -> Abort(s)   \* todo!()
         [] OTHER -> s

\* WM_ACTIVATE
OnActivate(s, h, wparam) ==
    IF wparam \notin {WA_ACTIVE, WA_CLICKACTIVE, WA_INACTIVE} THEN s
    ELSE LET focused == wparam \in {WA_ACTIVE, WA_CLICKACTIVE}
         IN IF LockFails(s) THEN LockFailure(s)
            ELSE IF Registered(s, h)
            THEN Emit([s EXCEPT !.info[h].focused = focused], h,
                      s.info[h].sender, [kind |-> "Focused", focused |-> focused])
            ELSE s

\* WM_DISPLAYCHANGE => todo!()
OnDisplayChange(s, h) == Abort(s)

\* WM_MOUSEWHEEL: the high word of wparam as i16
OnMouseWheel(s, h, wparam) ==
    LET hi == HIWORD(wparam)
        delta == IF hi >= 32768 THEN hi - 65536 ELSE hi
    IN IF LockFails(s) THEN LockFailure(s)
       ELSE IF Registered(s, h)
       THEN Emit(s, h, s.info[h].sender,
                 [kind |-> "MouseWheelScroll", delta |-> delta])
       ELSE s

(***************************************************************************)
(* win32.rs: key decoding.  The tables list the keys the model feeds in.   *)
(***************************************************************************)
\* impl TryFrom<VIRTUAL_KEY> for KeyboardScancode
KeyboardScancode_from_vk ==
    (VK_TAB :> "Tab") @@ (VK_RETURN :> "Enter") @@ (VK_A :> "A")

\* impl TryFrom<VIRTUAL_KEY> for MouseScancode
MouseScancode_from_vk == (VK_LBUTTON :> "LClick")

\* impl TryFrom<OemScancode> for KeyboardScancode
KeyboardScancode_from_oem ==
    (30 :> "A") @@ (15 :> "Tab") @@ (28 :> "Enter") @@ (57372 :> "NumEnter")
    @@ (42 :> "LShift") @@ (54 :> "RShift") @@ (58 :> "CapsLk")

\* MapVirtualKeyW(scancode, MAPVK_VSC_TO_VK_EX) of the native layer
MapVirtualKeyW_vsc_to_vk_ex ==
    (42 :> VK_LSHIFT) @@ (54 :> VK_RSHIFT)
    @@ (29 :> VK_LCONTROL) @@ (57373 :> VK_RCONTROL)
    @@ (56 :> VK_LMENU) @@ (57400 :> VK_RMENU)

\* MapVirtualKeyW(vk, MAPVK_VK_TO_CHAR) of the native layer
MapVirtualKeyW_vk_to_char == (VK_TAB :> 9) @@ (VK_RETURN :> 13) @@ (VK_A :> 65)

\* ToUnicode of the native layer for a US layout: the one code unit produced
ToUnicode(vk, shift) ==
    IF vk = VK_A THEN (IF shift THEN 65 ELSE 97)
    ELSE IF vk = VK_TAB THEN 9
    ELSE 13

Modifiers_try_from_vk_no_locks(vk, scancode) ==
    LET vk2 == IF vk \in {VK_SHIFT, VK_MENU, VK_CONTROL}
               THEN (IF scancode \in DOMAIN MapVirtualKeyW_vsc_to_vk_ex
                     THEN MapVirtualKeyW_vsc_to_vk_ex[scancode] ELSE 0)
               ELSE vk
    IN CASE vk2 = VK_LSHIFT -> "LSHIFT"
         [] vk2 = VK_RSHIFT -> "RSHIFT"
         [] vk2 = VK_LMENU -> "LALT"
         [] vk2 = VK_RMENU -> "RALT"
         [] vk2 = VK_LCONTROL -> "LCTRL"
         [] vk2 = VK_RCONTROL -> "RCTRL"
         [] vk2 = VK_LWIN -> "LSYS"
         [] vk2 = VK_RWIN -> "RSYS"
         [] OTHER -> None

\* ModifiersExt::try_from_vk
Modifiers_try_from_vk(vk, scancode) ==
    LET vk2 == IF vk \in {VK_SHIFT, VK_MENU, VK_CONTROL}
               THEN (IF scancode \in DOMAIN MapVirtualKeyW_vsc_to_vk_ex
                     THEN MapVirtualKeyW_vsc_to_vk_ex[scancode] ELSE 0)
               ELSE vk
    IN CASE vk2 = VK_LSHIFT -> "LSHIFT"
         [] vk2 = VK_RSHIFT -> "RSHIFT"
         [] vk2 = VK_LMENU -> "LALT"
         [] vk2 = VK_RMENU -> "RALT"
         [] vk2 = VK_LCONTROL -> "LCTRL"
         [] vk2 = VK_RCONTROL -> "RCTRL"
         [] vk2 = VK_LWIN -> "LSYS"
         [] vk2 = VK_RWIN -> "RSYS"
         [] vk2 = VK_CAPITAL -> "CAPSLOCK"
         [] vk2 = VK_NUMLOCK -> "NUMLOCK"
         [] OTHER -> None

Modifiers_update_toggle_on_up(modifiers, k, down) ==
    IF k \in {"CAPSLOCK", "NUMLOCK"}
    THEN (modifiers \ {k}) \cup ({k} \ modifiers)
    ELSE IF down THEN modifiers \cup {k} ELSE modifiers \ {k}

\* the update of v.modifiers in the modifier arm of the window procedure:
\* ^= on the key-down of a lock key, |= on key-down and &= ! on key-up of
\* the others
Modifiers_update(modifiers, k, down) ==
    IF k \in {"CAPSLOCK", "NUMLOCK"}
    THEN (IF down THEN (modifiers \ {k}) \cup ({k} \ modifiers) ELSE modifiers)
    ELSE IF down THEN modifiers \cup {k} ELSE modifiers \ {k}

\* KeyPressInfo::from_isize: bits 16..23 are the scancode, bit 24 the
\* extended flag, which sets 0xE000 in the scancode
KeyPressInfo_scancode(i) ==
    LET sc == (i \div 65536) % 256
        extended == (i \div 16777216) % 2 = 1
    IN IF extended THEN sc + 57344 ELSE sc

\* DefWindowProcW(WM_SYSCOMMAND): the native layer maximizes or restores the
\* window and notifies the window procedure of the new size; restore is the
\* lparam of the restored size
SysCommand(s, h, sc, restore) ==
    LET s1 == [s EXCEPT !.calls = Append(@, [fn |-> "SendMessageW",
                                             msg |-> "WM_SYSCOMMAND", wparam |-> sc])]
    IN CASE sc = SC_MAXIMIZE ->
              OnSize(OnGetMinMaxInfo([s1 EXCEPT !.native[h].show = "maximized",
                                                !.sized = @ + 1], h),
                     h, SIZE_MAXIMIZED, ScreenW + 65536 * ScreenH)
         [] sc = SC_RESTORE ->
              OnSize([s1 EXCEPT !.native[h].show = "normal", !.sized = @ + 1],
                     h, SIZE_RESTORED, restore)
         [] OTHER -> s1

SysKeyCommand_always_maximize(vk, size_state) ==
    IF vk = VK_RETURN THEN SC_MAXIMIZE ELSE SC_NEXTWINDOW

\* the wparam of the WM_SYSCOMMAND the window procedure sends itself for
\* Alt+Enter and Alt+Tab
SysKeyCommand(vk, size_state) ==
    IF vk = VK_RETURN
    THEN (IF size_state = "Maximized" THEN SC_RESTORE ELSE SC_MAXIMIZE)
    ELSE SC_NEXTWINDOW

OnKey(s, h, msg, wparam, lparam, restore) ==
    LET sys == msg \in {"WM_SYSKEYDOWN", "WM_SYSKEYUP"}
        down == msg \in {"WM_KEYDOWN", "WM_SYSKEYDOWN"}
        scancode == KeyPressInfo_scancode(lparam)
        vk == wparam % 65536
        physical_scancode ==
            IF scancode \in DOMAIN KeyboardScancode_from_oem
            THEN KeyboardScancode_from_oem[scancode] ELSE None
        \* the KeyboardScancode arm
        Keyboard(a) ==
            IF vk \notin DOMAIN KeyboardScancode_from_vk THEN a
            ELSE IF LockFails(a) THEN LockFailure(a)
            ELSE IF ~Registered(a, h) THEN a
            ELSE LET v == a.info[h]
                     k == KeyboardScancode_from_vk[vk]
                     shift == ("LSHIFT" \in v.modifiers \/ "RSHIFT" \in v.modifiers)
                              # ("CAPSLOCK" \in v.modifiers)
                 IN IF ~down
                    THEN Emit(a, h, v.sender,
                              [kind |-> "KeyUp", logical_scancode |-> k,
                               physical_scancode |-> physical_scancode])
                    ELSE Emit(a, h, v.sender,
                              [kind |-> "KeyDown", logical_scancode |-> k,
                               physical_scancode |-> physical_scancode,
                               character |-> ToUnicode(vk % 256, shift),
                               unshifted_char |-> MapVirtualKeyW_vk_to_char[vk]])
        \* the MouseScancode arm
        Mouse(a) ==
            IF a.status # "running" \/ vk \notin DOMAIN MouseScancode_from_vk THEN a
            ELSE IF LockFails(a) THEN LockFailure(a)
            ELSE IF ~Registered(a, h) THEN a
            ELSE Emit(a, h, a.info[h].sender,
                      [kind |-> IF down THEN "MouseButtonDown" ELSE "MouseButtonUp",
                       button |-> MouseScancode_from_vk[vk]])
        \* the Modifiers arm
        Modifier(a) ==
            LET k == Modifiers_try_from_vk(vk, scancode)
                b == [a EXCEPT !.native[h].down =
                                   IF down THEN @ \cup {k} ELSE @ \ {k}]
            IN IF a.status # "running" \/ k = None THEN a
               ELSE IF LockFails(a) THEN LockFailure(a)
               ELSE IF ~Registered(a, h)
               THEN [b EXCEPT !.info = insert(@, h, WindowInfo_default)]
               ELSE LET new == Modifiers_update(a.info[h].modifiers, k, down)
                    IN Emit([b EXCEPT !.info[h].modifiers = new], h,
                            a.info[h].sender,
                            [kind |-> "ModifiersChanged", modifiers |-> new])
    IN IF sys /\ vk \in {VK_TAB, VK_RETURN}
       THEN IF LockFails(s) THEN LockFailure(s)
            ELSE IF ~Registered(s, h)
            THEN Abort(s)                    \* write().unwrap().get().unwrap()
            ELSE SysCommand(s, h, SysKeyCommand(vk, s.info[h].size_state), restore)
       ELSE Modifier(Mouse(Keyboard(s)))

\* the WM_SETTEXT arm.  mem is the memory lparam points to, code unit by
\* code unit: the text, its terminating 0 and what follows the buffer.  The
\* scan for the terminator starts at the second code unit; a scan that
\* leaves the mapped memory faults.  String::from_utf16 refuses a surrogate
\* that has no partner.
OnSetText(s, h, mem) ==
    LET ends == {n \in 1..Len(mem) - 1 : mem[n + 1] = 0}
        len == CHOOSE n \in ends : \A k \in ends : n <= k
        v == SubSeq(mem, 1, len)
        lone(i) == \/ /\ v[i] \in 55296..56319
                      /\ ~(i < Len(v) /\ v[i + 1] \in 56320..57343)
                   \/ /\ v[i] \in 56320..57343
                      /\ ~(i > 1 /\ v[i - 1] \in 55296..56319)
    IN IF ends = {} THEN Abort(s)
       ELSE IF \E i \in DOMAIN v : lone(i) THEN s
       ELSE IF LockFails(s) THEN LockFailure(s)
       ELSE IF ~Registered(s, h) THEN s
       ELSE [s EXCEPT !.info[h].title = v]

\* main_wnd_proc; an unlisted message goes to DefWindowProcW
main_wnd_proc(s, h, m, restore) ==
    IF s.status # "running" THEN s
    ELSE CASE m.msg = "WM_CREATE" -> OnCreate(s, h)
           [] m.msg = "WM_CLOSE" -> OnClose(s, h)
           [] m.msg = "WM_DESTROY" -> OnDestroy(s, h, m.wparam, m.lparam)
           [] m.msg = "WM_GETMINMAXINFO" -> OnGetMinMaxInfo(s, h)
           [] m.msg = "WM_MOVE" -> OnMove(s, h, m.lparam)
           [] m.msg = "WM_SIZE" ->
                OnSize([s EXCEPT !.sized = @ + 1], h, m.wparam, m.lparam)
           [] m.msg = "WM_ACTIVATE" -> OnActivate(s, h, m.wparam)
           [] m.msg = "WM_DISPLAYCHANGE" -> OnDisplayChange(s, h)
           [] m.msg \in {"WM_KEYDOWN", "WM_SYSKEYDOWN", "WM_KEYUP", "WM_SYSKEYUP"} ->
                OnKey(s, h, m.msg, m.wparam, m.lparam, restore)
           [] m.msg = "WM_MOUSEWHEEL" -> OnMouseWheel(s, h, m.wparam)
           [] m.msg = "WM_SETTEXT" -> OnSetText(s, h, m.lparam)
           [] OTHER -> s

\* WindowIdExt::next_event: PeekMessageW(.., hwnd, .., PM_REMOVE), then
\* DispatchMessageW, which runs the window procedure
WindowId_next_event(s, h, restore) ==
    IF s.status # "running" THEN s
    ELSE IF s.native[h].state # "alive" \/ s.native[h].queue = <<>> THEN s
    ELSE main_wnd_proc([s EXCEPT !.native[h].queue = Tail(@)], h,
                       Head(s.native[h].queue), restore)

(***************************************************************************)
(* The queue-based decoder (X11): key notifications                        *)
(***************************************************************************)
\* the key notification of the X server: its type, the key code and the
\* state mask of the modifiers held
XKeyEvent(type, keycode, state) == [type |-> type, keycode |-> keycode, state |-> state]

\* the Modifiers built from the state mask of a key notification; mask bits
\* outside Shift, Control, Mod1, Mod4 and Lock are dropped
Xlib_modifiers(state) ==
    {"LSHIFT" : x \in state \cap {"ShiftMask"}}
    \cup {"LCTRL" : x \in state \cap {"ControlMask"}}
    \cup {"LALT" : x \in state \cap {"Mod1Mask"}}
    \cup {"LSYS" : x \in state \cap {"Mod4Mask"}}
    \cup {"CAPSLOCK" : x \in state \cap {"LockMask"}}

\* WindowIdExt::next_event of the X11 back end: under the write guard of the
\* registry, XCheckWindowEvent takes one notification and the KeyPress or
\* KeyRelease arm decodes it
Xlib_next_event(s, h) ==
    IF s.status # "running" THEN s
    ELSE IF s.poisoned THEN Panic(s, FALSE)
    ELSE IF ~Registered(s, h) THEN s
    ELSE IF s.native[h].state # "alive" \/ s.native[h].queue = <<>> THEN s
    ELSE LET ev == Head(s.native[h].queue)
             v == s.info[h]
             s1 == Emit([s EXCEPT !.native[h].queue = Tail(@)], h, v.sender,
                        [kind |-> "KeyDown", key_code |-> ev.keycode])
             m == Xlib_modifiers(ev.state)
         IN IF v.modifiers \subseteq m          \* m.contains(w.modifiers)
            THEN Emit([s1 EXCEPT !.info[h].modifiers = m], h, v.sender,
                      [kind |-> "ModifiersChanged", modifiers |-> m])
            ELSE s1

(***************************************************************************)
(* Native requests made by the window methods.  The native layer runs the  *)
(* window procedure on the calling thread before the request returns.      *)
(***************************************************************************)
MAKELPARAM(lo, hi) == lo + 65536 * hi

\* the request is added to those made by the running operation
Call(s, c) == [s EXCEPT !.calls = Append(@, c)]

\* the client extent the native layer reports for a requested extent
ClientExtent(c) == IF c < 0 THEN 0 ELSE c % 65536

\* the native layer sends the window procedure WM_GETMINMAXINFO, WM_SIZE or
\* WM_ACTIVATE: the arm of main_wnd_proc for that message runs
SendGetMinMaxInfo(s, h) ==
    IF s.status # "running" THEN s ELSE OnGetMinMaxInfo(s, h)

SendSize(s, h, wparam, lparam) ==
    IF s.status # "running" THEN s
    ELSE OnSize([s EXCEPT !.sized = @ + 1], h, wparam, lparam)

SendActivate(s, h, wparam) ==
    IF s.status # "running" THEN s ELSE OnActivate(s, h, wparam)

\* SetWindowLongPtrW(hwnd, GWL_STYLE, style)
SetWindowLongPtrW(s, h, style) ==
    Call([s EXCEPT !.native[h].style = style],
         [fn |-> "SetWindowLongPtrW", style |-> style])

\* the WM_SIZE code the native layer reports for a show state
SizeCode(show) ==
    CASE show = "minimized" -> SIZE_MINIMIZED
      [] show = "maximized" -> SIZE_MAXIMIZED
      [] OTHER -> SIZE_RESTORED

\* SetWindowPos(hwnd, .., x, y, cx, cy, flags).  Every caller sets
\* SWP_SHOWWINDOW or SWP_HIDEWINDOW, with which the native layer may leave
\* position and size alone ("ignored"); when it applies them it sends the
\* window procedure WM_GETMINMAXINFO (for a sizing border) and WM_SIZE
SetWindowPos(s, h, x, y, cx, cy, result) ==
    LET s1 == Call(s, [fn |-> "SetWindowPos", x |-> x, y |-> y,
                       cx |-> cx, cy |-> cy])
        s2 == IF "WS_THICKFRAME" \in s1.native[h].style
              THEN SendGetMinMaxInfo(s1, h)
              ELSE s1
    IN IF result = "ignored" \/ s1.native[h].state # "alive" THEN s1
       ELSE SendSize(s2, h, SizeCode(s1.native[h].show),
                     MAKELPARAM(ClientExtent(cx), ClientExtent(cy)))

\* ShowWindow(hwnd, SW_MINIMIZE | SW_MAXIMIZE): the native layer changes the
\* show state and sends the window procedure the resulting WM_SIZE
ShowWindow(s, h, cmd) ==
    LET show == IF cmd = "SW_MINIMIZE" THEN "minimized" ELSE "maximized"
        s1 == Call(s, [fn |-> "ShowWindow", cmd |-> cmd])
        s2 == [s1 EXCEPT !.native[h].show = show]
        s3 == IF cmd = "SW_MAXIMIZE"
              THEN SendGetMinMaxInfo(s2, h)
              ELSE s2
    IN IF s1.native[h].state # "alive" \/ s1.native[h].show = show THEN s1
       ELSE SendSize(s3, h, SizeCode(show),
                     IF cmd = "SW_MAXIMIZE"
                     THEN MAKELPARAM(ScreenW, ScreenH) ELSE 0)

\* SetFocus(hwnd) on a window that is not active: the native layer activates
\* it and sends the window procedure WM_ACTIVATE
SetFocus(s, h) ==
    LET s1 == Call(s, [fn |-> "SetFocus"])
    IN IF s1.native[h].state # "alive" THEN s1
       ELSE SendActivate([s1 EXCEPT !.native[h].active = TRUE], h, WA_ACTIVE)

(***************************************************************************)
(* Inputs of the environment                                               *)
(***************************************************************************)

\* the notifications the native layer posts to a live window
Messages ==
    { Msg("WM_CLOSE", 0, 0),
      Msg("WM_MOVE", 0, MAKELPARAM(1, 2)),
      Msg("WM_GETMINMAXINFO", 0, 0),
      Msg("WM_SIZE", SIZE_MAXSHOW, MAKELPARAM(1, 1)),
      Msg("WM_DISPLAYCHANGE", 0, 0),
      Msg("WM_SYSKEYDOWN", VK_TAB, MAKELPARAM(1, 15)),
      Msg("WM_PAINT", 0, 0) }

\* the size the native layer restores a maximized window to
RestoreLParams == { MAKELPARAM(2, 1) }

\* the results of the native calls made by try_new
RegisterResults == {"ok", "fail"}
CreateResults == {"ok", "fail", "fail_nccreate"}

\* the fields read by the accessors, the values written by the mutators
AccessorFields == {"width", "min_width", "focused"}
MinWidths == {1}

\* the resize notifications the native layer posts when the user minimizes,
\* maximizes or restores a window
ResizeMessages ==
    { Msg("WM_SIZE", SIZE_RESTORED, MAKELPARAM(2, 1)),
      Msg("WM_SIZE", SIZE_MINIMIZED, 0),
      Msg("WM_SIZE", SIZE_MAXIMIZED, MAKELPARAM(ScreenW, ScreenH)) }

\* the lparam of a key notification: repeat count 1, the scancode in bits
\* 16..23, the extended flag in bit 24
KeyLParam(scancode, extended) ==
    1 + 65536 * scancode + (IF extended THEN 16777216 ELSE 0)

\* the modifier keys as the native layer reports them: virtual key, scancode
\* and extended flag
ModifierKeys ==
    [ LSHIFT |-> [vk |-> VK_SHIFT, lparam |-> KeyLParam(42, FALSE)],
      RSHIFT |-> [vk |-> VK_SHIFT, lparam |-> KeyLParam(54, FALSE)],
      LCTRL |-> [vk |-> VK_CONTROL, lparam |-> KeyLParam(29, FALSE)],
      RCTRL |-> [vk |-> VK_CONTROL, lparam |-> KeyLParam(29, TRUE)],
      LALT |-> [vk |-> VK_MENU, lparam |-> KeyLParam(56, FALSE)],
      RALT |-> [vk |-> VK_MENU, lparam |-> KeyLParam(56, TRUE)],
      LSYS |-> [vk |-> VK_LWIN, lparam |-> KeyLParam(91, TRUE)],
      RSYS |-> [vk |-> VK_RWIN, lparam |-> KeyLParam(92, TRUE)],
      CAPSLOCK |-> [vk |-> VK_CAPITAL, lparam |-> KeyLParam(58, FALSE)],
      NUMLOCK |-> [vk |-> VK_NUMLOCK, lparam |-> KeyLParam(69, TRUE)] ]

LockKeys == {"CAPSLOCK", "NUMLOCK"}

LevelKeys == DOMAIN ModifierKeys \ LockKeys

\* the key-down or key-up notification of a modifier key; Alt arrives as a
\* system key
KeyMessage(k, down) ==
    Msg(IF k \in {"LALT", "RALT"}
        THEN (IF down THEN "WM_SYSKEYDOWN" ELSE "WM_SYSKEYUP")
        ELSE (IF down THEN "WM_KEYDOWN" ELSE "WM_KEYUP"),
        ModifierKeys[k].vk, ModifierKeys[k].lparam)

\* the keys pressed and the activation codes posted in the runs
InputKeys == {"LSHIFT", "RALT", "CAPSLOCK"}

InputMessages ==
    {KeyMessage(k, down) : k \in InputKeys, down \in BOOLEAN}
    \cup {Msg("WM_ACTIVATE", w, 0) : w \in {WA_INACTIVE, WA_ACTIVE, WA_CLICKACTIVE}}

\* Alt+Enter going down and up, and Alt+Tab going down
SysKeyMessages ==
    { Msg("WM_SYSKEYDOWN", VK_RETURN, KeyLParam(28, FALSE)),
      Msg("WM_SYSKEYUP", VK_RETURN, KeyLParam(28, FALSE)),
      Msg("WM_SYSKEYDOWN", VK_TAB, KeyLParam(15, FALSE)) }

\* the notifications posted while two threads run: a move and a key
ThreadMessages ==
    { Msg("WM_MOVE", 0, MAKELPARAM(1, 2)), KeyMessage("LSHIFT", TRUE) }

\* what the native layer does with the position and size of a SetWindowPos
\* that also shows or hides the window
SetWindowPosResults == {"ignored", "applied"}

\* what write() does on the thread that holds the write guard
RelockResults == {"deadlocked", "aborted"}

FullscreenTypes == {"NotFullscreen", "Borderless", "Exclusive"}

WindowSizeStates == {"Other", "Minimized", "Maximized"}

\* the fields read in the runs of the window methods, the widths written
WindowFields == {"width", "height", "fullscreen"}
Widths == {1}
Heights == {1}

(***************************************************************************)
(* The operations                                                          *)
(***************************************************************************)
Apply(s) ==
    /\ WINDOW_INFO' = s.info
    /\ poisoned' = s.poisoned
    /\ native' = s.native
    /\ events' = s.events
    /\ status' = s.status
    /\ sent' = s.sent
    /\ lost' = s.lost
    /\ removed' = s.removed
    /\ destroyed' = s.destroyed

Outcome(s) == IF s.status = "running" THEN "Ok" ELSE s.status

Free == {h \in Hwnd : native[h].state = "free"}

\* the handle value CreateWindowExW hands out next
NextHwnd == CHOOSE h \in Free : \A k \in Free : h <= k

\* CreateWindowExW as called by create_window: the native layer allocates the
\* window and sends it WM_GETMINMAXINFO and, once WM_NCCREATE succeeded,
\* WM_CREATE; with "fail" nothing was allocated, with "fail_nccreate" the
\* window is freed again after WM_GETMINMAXINFO was delivered
CreateWindowExW(s, h, result) ==
    LET born == [s EXCEPT !.native[h].state = "alive",
                          !.native[h].style = WS_OVERLAPPEDWINDOW \cup WS_CLIPSIBLINGS]
    IN CASE result = "fail" -> s
         [] result = "fail_nccreate" ->
              LET s1 == SendGetMinMaxInfo(born, h)
              IN IF s1.status # "running" THEN s1
                 ELSE [s1 EXCEPT !.native[h].state = "dead", !.native[h].queue = <<>>]
         [] OTHER ->
              LET s1 == SendGetMinMaxInfo(born, h)
              IN IF s1.status # "running" THEN s1 ELSE OnCreate(s1, h)

\* Window::try_new
TryNew ==
    /\ status = "running"
    /\ Free # {}
    /\ \E reg \in RegisterResults, atom \in 1..MaxAtom, result \in CreateResults :
         LET h == NextHwnd
             registers == CLASS_ID = 0
             info == [WindowInfo_default EXCEPT
                        !.class_id = IF registers THEN atom ELSE CLASS_ID]
             s1 == CreateWindowExW(St, h, result)
             s2 == IF s1.status # "running" THEN s1
                   ELSE IF s1.poisoned THEN Panic(s1, FALSE)
                   ELSE [s1 EXCEPT !.info = insert(@, h, info)]
         IN IF registers /\ reg = "fail"
            THEN /\ last' = [op |-> "try_new", h |-> 0, res |-> "Err"]
                 /\ UNCHANGED <<WINDOW_INFO, poisoned, CLASS_ID, native, handles,
                                events, status, sent, lost, removed, destroyed>>
            ELSE /\ CLASS_ID' = IF registers THEN atom ELSE CLASS_ID
                 /\ IF result = "ok"
                    THEN /\ Apply(s2)
                         /\ handles' = IF s2.status = "running"
                                       THEN [handles EXCEPT ![h] = 1] ELSE handles
                         /\ last' = [op |-> "try_new", h |-> h, res |-> Outcome(s2)]
                    ELSE /\ Apply(s1)
                         /\ handles' = handles
                         /\ last' = [op |-> "try_new",
                                     h |-> IF result = "fail" THEN 0 ELSE h,
                                     res |-> IF s1.status = "running" THEN "Err"
                                             ELSE s1.status]
    /\ UNCHANGED <<pc, locks, ids, taken, posts>>

\* #[derive(Clone)] on Window: Arc::clone of the handle
CloneWindow(h) ==
    /\ status = "running"
    /\ handles[h] >= 1
    /\ handles[h] < MaxClones
    /\ handles' = [handles EXCEPT ![h] = @ + 1]
    /\ last' = [op |-> "clone", h |-> h, res |-> "Ok"]
    /\ UNCHANGED <<pc, locks, WINDOW_INFO, poisoned, CLASS_ID, native, events, ids, status,
                   sent, taken, lost, posts, removed, destroyed>>

IsLastHandle_off_by_one(strong_count) == strong_count <= 2

\* the test of impl Drop for Window
IsLastHandle(strong_count) == strong_count <= 1

\* impl Drop for Window, followed by the release of the Arc
DropWindow(h) ==
    /\ status = "running"
    /\ handles[h] >= 1
    /\ LET s1 == IF ~IsLastHandle(handles[h]) THEN St
                 ELSE IF poisoned THEN Panic(St, FALSE)
                 ELSE [St EXCEPT !.info = remove(@, h),
                                 !.removed = IF Registered(St, h)
                                             THEN @ \cup {h} ELSE @]
       IN /\ Apply(s1)
          /\ last' = [op |-> "drop", h |-> h, res |-> Outcome(s1)]
    /\ handles' = [handles EXCEPT ![h] = @ - 1]
    /\ UNCHANGED <<pc, locks, CLASS_ID, ids, taken, posts>>

\* Window::try_new when CreateWindowExW hands out the handle value of a
\* window that was destroyed while Window handles to it are still held: the
\* new Window has an Arc of its own, the handles held before keep theirs
ReuseHwnd(h) ==
    /\ status = "running"
    /\ native[h].state = "dead"
    /\ native[h].stale = 0
    /\ handles[h] >= 1
    /\ sent + lost < MaxSends
    /\ LET s0 == [St EXCEPT !.native[h] =
                                [NativeWindow_free EXCEPT !.stale = handles[h]]]
           s1 == CreateWindowExW(s0, h, "ok")
           s2 == IF s1.status # "running" THEN s1
                 ELSE IF s1.poisoned THEN Panic(s1, FALSE)
                 ELSE [s1 EXCEPT !.info = insert(@, h, [WindowInfo_default EXCEPT
                                                          !.class_id = CLASS_ID])]
       IN /\ Apply(s2)
          /\ handles' = [handles EXCEPT ![h] = 1]
          /\ last' = [op |-> "try_new", h |-> h, res |-> Outcome(s2)]
    /\ UNCHANGED <<pc, locks, CLASS_ID, ids, taken, posts>>

\* impl Drop for Window, for a handle of the earlier window: the count is
\* that of its own Arc, the entry removed is the one under its handle value
DropStale(h) ==
    /\ status = "running"
    /\ native[h].stale >= 1
    /\ LET s1 == IF ~IsLastHandle(native[h].stale) THEN St
                 ELSE IF poisoned THEN Panic(St, FALSE)
                 ELSE [St EXCEPT !.info = remove(@, h),
                                 !.removed = IF Registered(St, h)
                                             THEN @ \cup {h} ELSE @]
       IN /\ Apply([s1 EXCEPT !.native[h].stale = @ - 1])
          /\ last' = [op |-> "drop_stale", h |-> h, res |-> Outcome(s1)]
    /\ UNCHANGED <<pc, locks, CLASS_ID, handles, ids, taken, posts>>

\* EventLoop::bind: ids.insert(window.id()), then window.sender() (which
\* unwraps the registry lookup) is bound to the receiver
Bind(h) ==
    /\ status = "running"
    /\ handles[h] >= 1
    /\ ids' = ids \cup {h}
    /\ LET s1 == IF poisoned \/ ~Registered(St, h) THEN Panic(St, FALSE)
                 ELSE [St EXCEPT !.info[h].sender = EventSender_bind(@, Rx)]
       IN /\ Apply(s1)
          /\ last' = [op |-> "bind", h |-> h, res |-> Outcome(s1)]
    /\ UNCHANGED <<pc, locks, CLASS_ID, handles, taken, posts>>

\* the orders in which a HashSet of ids can be iterated
Orders(S) ==
    {o \in [1..Cardinality(S) -> S] : \A i, j \in DOMAIN o : i # j => o[i] # o[j]}

RECURSIVE Pump(_, _, _)
Pump(s, order, restore) ==
    IF order = <<>> THEN s
    ELSE Pump(WindowId_next_event(s, Head(order), restore), Tail(order), restore)

ShouldPump_always(q) == TRUE

ShouldPump_never(q) == FALSE

\* the test of EventLoop::next_event on its copy of the queue
ShouldPump(q) == q = <<>>

\* EventLoop::next_event
NextEvent ==
    /\ status = "running"
    /\ \E order \in Orders(ids), restore \in RestoreLParams :
         LET pumps == ShouldPump(events)
             s1 == IF pumps THEN Pump(St, order, restore) ELSE St
             ret == IF s1.status = "running" THEN front(s1.events) ELSE <<>>
             s2 == IF s1.status = "running"
                   THEN [s1 EXCEPT !.events = pop_front(@)] ELSE s1
         IN /\ Apply(s2)
            /\ taken' = taken + Len(ret)
            /\ last' = [op |-> "next_event", h |-> 0, res |-> Outcome(s2),
                        ret |-> ret, pumped |-> pumps, calls |-> s2.calls,
                        sized |-> s2.sized]
    /\ UNCHANGED <<pc, locks, CLASS_ID, handles, ids, posts>>

clear_forgotten(q) == q

\* what EventLoop::events leaves in the queue
clear(q) == <<>>

\* EventLoop::events
Events ==
    /\ status = "running"
    /\ events' = clear(events)
    /\ taken' = taken + Len(events)
    /\ last' = [op |-> "events", h |-> 0, res |-> "Ok", ret |-> events]
    /\ UNCHANGED <<pc, locks, WINDOW_INFO, poisoned, CLASS_ID, native, handles, ids, status,
                   sent, lost, posts, removed, destroyed>>

\* an accessor of WindowT: read().unwrap().get(&hwnd).unwrap().field
Accessor(h, field) ==
    /\ status = "running"
    /\ handles[h] >= 1
    /\ LET absent == ~Registered(St, h)
           s1 == IF poisoned \/ absent THEN Panic(St, FALSE) ELSE St
       IN /\ Apply(s1)
          /\ last' = [op |-> "get", h |-> h, res |-> Outcome(s1), absent |-> absent,
                      field |-> field,
                      value |-> IF absent THEN None ELSE WINDOW_INFO[h][field]]
    /\ UNCHANGED <<pc, locks, CLASS_ID, handles, ids, taken, posts>>

\* Window::set_min_width: write().unwrap().entry(hwnd).and_modify(..)
SetMinWidth(h, width) ==
    /\ status = "running"
    /\ handles[h] >= 1
    /\ LET absent == ~Registered(St, h)
           s1 == IF poisoned THEN Panic(St, FALSE)
                 ELSE IF absent THEN St
                 ELSE [St EXCEPT !.info[h].min_width = width]
       IN /\ Apply(s1)
          /\ last' = [op |-> "set", h |-> h, res |-> Outcome(s1), absent |-> absent,
                      field |-> "min_width", value |-> width]
    /\ UNCHANGED <<pc, locks, CLASS_ID, handles, ids, taken, posts>>

\* the values of WindowButtons: MINIMIZE and MAXIMIZE are bits, CLOSE is
\* the empty bit pattern, which every value contains
ButtonSets == SUBSET {"MINIMIZE", "MAXIMIZE"}

\* Window::set_enabled_buttons: under the write guard the entry takes the
\* buttons, the box bits of the buttons given are taken out of the style,
\* and the style is handed to the native layer
SetEnabledButtons(h, buttons) ==
    /\ status = "running"
    /\ handles[h] >= 1
    /\ LET absent == ~Registered(St, h)
           style == {"WS_MAXIMIZEBOX" : x \in buttons \cap {"MAXIMIZE"}}
                    \cup {"WS_MINIMIZEBOX" : x \in buttons \cap {"MINIMIZE"}}
           s1 == IF poisoned THEN Panic(St, FALSE)
                 ELSE IF absent THEN St
                 ELSE LET v == [WINDOW_INFO[h] EXCEPT !.enabled_buttons = buttons,
                                                      !.style = @ \ style]
                          s0 == SetWindowLongPtrW([St EXCEPT !.info[h] = v], h, v.style)
                      IN IF v.no_close = FALSE   \* && buttons.contains(CLOSE)
                         THEN s0
                         ELSE Panic(s0, TRUE)    \* todo!()
       IN /\ Apply(s1)
          /\ last' = [op |-> "set_enabled_buttons", h |-> h, res |-> Outcome(s1),
                      absent |-> absent, buttons |-> buttons, calls |-> s1.calls]
    /\ UNCHANGED <<pc, locks, CLASS_ID, handles, ids, taken, posts>>

\* the titles set in the runs (the empty one, "a", "ab") and the memory that
\* follows the caller's buffer: a zero, a letter, a low surrogate, or the end
\* of the mapped memory
TitleMemory ==
    {[title |-> t, after |-> a] : t \in {<<>>, <<97>>, <<97, 98>>},
                                  a \in {<<0>>, <<120, 0>>, <<56320, 0>>, <<>>}}

\* WindowExtWindows::set_title: the title is encoded with a terminating 0
\* and handed to SetWindowTextW, which sends WM_SETTEXT to the window
\* procedure before it returns; a window that is gone makes it fail
SetTitle(h, tm) ==
    /\ status = "running"
    /\ handles[h] >= 1
    /\ LET title_w == Append(tm.title, 0)
           s1 == IF native[h].state # "alive" THEN Panic(St, FALSE)
                 ELSE main_wnd_proc(St, h, Msg("WM_SETTEXT", 0, title_w \o tm.after), 0)
       IN /\ Apply(s1)
          /\ last' = [op |-> "set_title", h |-> h, res |-> Outcome(s1),
                      absent |-> ~Registered(St, h), title |-> tm.title]
    /\ UNCHANGED <<pc, locks, CLASS_ID, handles, ids, taken, posts>>

\* the native layer posts a notification to a live window
NativePost(h, m) ==
    /\ status = "running"
    /\ native[h].state = "alive"
    /\ posts < MaxPosts
    /\ Len(native[h].queue) < MaxPending
    /\ native' = [native EXCEPT ![h].queue = Append(@, m)]
    /\ posts' = posts + 1
    /\ last' = [op |-> "post", h |-> h, res |-> "Ok"]
    /\ UNCHANGED <<pc, locks, WINDOW_INFO, poisoned, CLASS_ID, handles, events, ids, status,
                   sent, taken, lost, removed, destroyed>>

\* the native layer posts a notification behind one that is still pending:
\* the message queue of a window holds as many as were posted
NativeQueue(h, m) ==
    /\ status = "running"
    /\ native[h].state = "alive"
    /\ posts < MaxPosts
    /\ Len(native[h].queue) < MaxBurst
    /\ native' = [native EXCEPT ![h].queue = Append(@, m)]
    /\ posts' = posts + 1
    /\ last' = [op |-> "post", h |-> h, res |-> "Ok"]
    /\ UNCHANGED <<pc, locks, WINDOW_INFO, poisoned, CLASS_ID, handles, events, ids, status,
                   sent, taken, lost, removed, destroyed>>

\* the key notifications of the X server in the runs: a press and a release,
\* under the masks of no modifier, Shift, Shift with Control, and Num Lock
XlibEvents ==
    {XKeyEvent(t, 38, st) : t \in {"KeyPress", "KeyRelease"},
                            st \in {{}, {"ShiftMask"}, {"ShiftMask", "ControlMask"},
                                    {"Mod2Mask"}}}

\* the loop of the X11 back end polls the window h
XlibNextEvent(h) ==
    /\ status = "running"
    /\ handles[h] >= 1
    /\ LET s1 == Xlib_next_event(St, h)
       IN /\ Apply(s1)
          /\ last' = [op |-> "xlib_next_event", h |-> h, res |-> Outcome(s1)]
    /\ UNCHANGED <<pc, locks, CLASS_ID, handles, ids, taken, posts>>

\* the application's own GetMessageW/DispatchMessageW loop hands the next
\* notification of a window to the window procedure
NativeDispatch(h) ==
    /\ status = "running"
    /\ native[h].state = "alive"
    /\ native[h].queue # <<>>
    /\ \E restore \in RestoreLParams :
         LET s1 == WindowId_next_event(St, h, restore)
         IN /\ Apply(s1)
            /\ last' = [op |-> "dispatch", h |-> h, res |-> Outcome(s1)]
    /\ UNCHANGED <<pc, locks, CLASS_ID, handles, ids, taken, posts>>

\* the native layer destroys a window without a close request
NativeDestroy(h) ==
    /\ status = "running"
    /\ native[h].state = "alive"
    /\ LET s1 == DestroyWindow(St, h)
       IN /\ Apply(s1)
          /\ last' = [op |-> "destroy", h |-> h, res |-> Outcome(s1)]
    /\ UNCHANGED <<pc, locks, CLASS_ID, handles, ids, taken, posts>>

(***************************************************************************)
(* win32.rs: the window methods                                            *)
(***************************************************************************)
\* Window::set_fullscreen
SetFullscreen(h, fullscreen) ==
    /\ status = "running"
    /\ handles[h] >= 1
    /\ sent + lost < MaxSends
    /\ \E result \in SetWindowPosResults, relock \in RelockResults :
         LET absent == ~Registered(St, h)
             v == WINDOW_INFO[h]
             s0 == [St EXCEPT !.held = TRUE, !.relock = relock]
             snapshot == native[h].style
             borderless == [s0 EXCEPT !.info[h].non_fullscreen_style = snapshot]
             framed == WS_VISIBLE \cup WS_OVERLAPPEDWINDOW \cup WS_CLIPSIBLINGS
             popup == WS_VISIBLE \cup WS_POPUP
             s1 == CASE poisoned \/ absent -> Panic(St, FALSE)
                     [] v.fullscreen = fullscreen -> St
                     [] fullscreen = "Borderless" ->
                          IF WS_POPUP \subseteq snapshot
                          THEN SetWindowPos(
                                 [SetWindowLongPtrW(borderless, h, framed)
                                    EXCEPT !.info[h].style = framed],
                                 h, 0, 0, 600, 400, result)
                          ELSE SetWindowPos(
                                 [SetWindowLongPtrW(borderless, h, popup)
                                    EXCEPT !.info[h].style = popup],
                                 h, 0, 0, ScreenW, ScreenH, result)
                     [] fullscreen = "Exclusive" -> Panic(s0, TRUE)      \* todo!()
                     [] OTHER ->
                          SetWindowPos(
                            SetWindowLongPtrW(s0, h, v.non_fullscreen_style),
                            h, v.x, v.y, v.width, v.height, result)
         IN /\ Apply(s1)
            /\ last' = [op |-> "set_fullscreen", h |-> h, res |-> Outcome(s1),
                        mode |-> fullscreen, calls |-> s1.calls,
                        absent |-> absent,
                        before |-> IF absent THEN [fullscreen |-> None]
                                   ELSE [ fullscreen |-> v.fullscreen,
                                          style |-> v.style,
                                          native_style |-> snapshot,
                                          x |-> v.x, y |-> v.y,
                                          width |-> v.width,
                                          height |-> v.height ]]
    /\ UNCHANGED <<pc, locks, CLASS_ID, handles, ids, taken, posts>>

\* Window::fullscreen
Fullscreen(h) ==
    /\ status = "running"
    /\ handles[h] >= 1
    /\ LET absent == ~Registered(St, h)
           s1 == IF poisoned \/ absent THEN Panic(St, FALSE) ELSE St
       IN /\ Apply(s1)
          /\ last' = [op |-> "fullscreen", h |-> h, res |-> Outcome(s1),
                      value |-> IF absent THEN None
                                ELSE WINDOW_INFO[h].fullscreen
                                       \in {"Exclusive", "Borderless"}]
    /\ UNCHANGED <<pc, locks, CLASS_ID, handles, ids, taken, posts>>

ShowsWindow_always(size_state, target) == TRUE

\* the test of minimize_window and maximize_window
ShowsWindow(size_state, target) == size_state # target

\* Window::minimize (minimize_window) and Window::maximize (maximize_window)
ShowMethod(h, op, target, cmd) ==
    /\ status = "running"
    /\ handles[h] >= 1
    /\ sent + lost < MaxSends
    /\ LET absent == ~Registered(St, h)
           s1 == IF poisoned \/ absent THEN Panic(St, FALSE)
                 ELSE IF ShowsWindow(WINDOW_INFO[h].size_state, target)
                 THEN ShowWindow(St, h, cmd)
                 ELSE St
       IN /\ Apply(s1)
          /\ last' = [op |-> op, h |-> h, res |-> Outcome(s1),
                      calls |-> s1.calls, sized |-> s1.sized]
    /\ UNCHANGED <<pc, locks, CLASS_ID, handles, ids, taken, posts>>

Minimize(h) == ShowMethod(h, "minimize", "Minimized", "SW_MINIMIZE")

Maximize(h) == ShowMethod(h, "maximize", "Maximized", "SW_MAXIMIZE")

\* Window::normalize
Normalize(h) ==
    /\ status = "running"
    /\ handles[h] >= 1
    /\ sent + lost < MaxSends
    /\ \E result \in SetWindowPosResults :
         LET absent == ~Registered(St, h)
             info == WINDOW_INFO[h]
             s1 == IF poisoned \/ absent THEN Panic(St, FALSE)
                   ELSE IF info.size_state # "Minimized"
                   THEN SetWindowPos(St, h, info.x, info.y, info.width,
                                     info.height, result)
                   ELSE St
         IN /\ Apply(s1)
            /\ last' = [op |-> "normalize", h |-> h, res |-> Outcome(s1),
                        calls |-> s1.calls, sized |-> s1.sized]
    /\ UNCHANGED <<pc, locks, CLASS_ID, handles, ids, taken, posts>>

\* Window::set_width
SetWidth(h, width) ==
    /\ status = "running"
    /\ handles[h] >= 1
    /\ sent + lost < MaxSends
    /\ \E result \in SetWindowPosResults, relock \in RelockResults :
         LET absent == ~Registered(St, h)
             v == WINDOW_INFO[h]
             s0 == [St EXCEPT !.held = TRUE, !.relock = relock]
             s1 == IF poisoned THEN Panic(St, FALSE)
                   ELSE IF absent THEN St
                   ELSE SetWindowPos([s0 EXCEPT !.info[h].width = width], h,
                                     v.x, v.y, width, v.height, result)
         IN /\ Apply(s1)
            /\ last' = [op |-> "set_width", h |-> h, res |-> Outcome(s1),
                        absent |-> absent, width |-> width, calls |-> s1.calls]
    /\ UNCHANGED <<pc, locks, CLASS_ID, handles, ids, taken, posts>>

\* Window::set_height
SetHeight(h, height) ==
    /\ status = "running"
    /\ handles[h] >= 1
    /\ sent + lost < MaxSends
    /\ \E result \in SetWindowPosResults, relock \in RelockResults :
         LET absent == ~Registered(St, h)
             v == WINDOW_INFO[h]
             s0 == [St EXCEPT !.held = TRUE, !.relock = relock]
             s1 == IF poisoned THEN Panic(St, FALSE)
                   ELSE IF absent THEN St
                   ELSE SetWindowPos([s0 EXCEPT !.info[h].height = height], h,
                                     v.x, v.y, v.width, height, result)
         IN /\ Apply(s1)
            /\ last' = [op |-> "set_height", h |-> h, res |-> Outcome(s1),
                        absent |-> absent, height |-> height, calls |-> s1.calls]
    /\ UNCHANGED <<pc, locks, CLASS_ID, handles, ids, taken, posts>>

\* Window::focus; active is GetActiveWindow() == hwnd
Focus(h) ==
    /\ status = "running"
    /\ handles[h] >= 1
    /\ sent + lost < MaxSends
    /\ LET active == native[h].active
           s1 == IF active THEN St ELSE SetFocus(St, h)
           s2 == IF active \/ s1.status # "running" THEN s1
                 ELSE IF s1.poisoned THEN Panic(s1, FALSE)
                 ELSE IF ~Registered(s1, h) THEN s1
                 ELSE [s1 EXCEPT !.info[h].focused = TRUE]
       IN /\ Apply(s2)
          /\ last' = [op |-> "focus", h |-> h, res |-> Outcome(s2),
                      calls |-> s2.calls]
    /\ UNCHANGED <<pc, locks, CLASS_ID, handles, ids, taken, posts>>

\* Window::try_new while fewer than MaxLive windows were created
NewWindow ==
    /\ Cardinality(Hwnd \ Free) < MaxLive
    /\ TryNew

\* the user minimizes, maximizes or restores a window: the native layer
\* changes the show state and posts the resize notification
NativeResize(h, m) ==
    /\ status = "running"
    /\ native[h].state = "alive"
    /\ posts < MaxPosts
    /\ Len(native[h].queue) < MaxPending
    /\ native' = [native EXCEPT
                    ![h].queue = Append(@, m),
                    ![h].show = CASE m.wparam = SIZE_MINIMIZED -> "minimized"
                                  [] m.wparam = SIZE_MAXIMIZED -> "maximized"
                                  [] OTHER -> "normal"]
    /\ posts' = posts + 1
    /\ last' = [op |-> "post", h |-> h, res |-> "Ok"]
    /\ UNCHANGED <<pc, locks, WINDOW_INFO, poisoned, CLASS_ID, handles, events, ids, status,
                   sent, taken, lost, removed, destroyed>>

\* the native layer posts a key or activation notification; an activation
\* notification tells what the window's activation has become
NativeInput(h, m) ==
    /\ status = "running"
    /\ native[h].state = "alive"
    /\ posts < MaxKeys
    /\ Len(native[h].queue) < MaxPending
    /\ native' = [native EXCEPT
                    ![h].queue = Append(@, m),
                    ![h].active = IF m.msg = "WM_ACTIVATE"
                                  THEN m.wparam # WA_INACTIVE ELSE @]
    /\ posts' = posts + 1
    /\ last' = [op |-> "post", h |-> h, res |-> "Ok"]
    /\ UNCHANGED <<pc, locks, WINDOW_INFO, poisoned, CLASS_ID, handles, events, ids, status,
                   sent, taken, lost, removed, destroyed>>

(***************************************************************************)
(* Threads.  The EventLoop lives on one thread (it is neither Send nor     *)
(* Sync); a Window and its clones are Send, so a second thread can drop a  *)
(* clone and can run the message loop of a window it owns.  Here the       *)
(* operations of lib.rs, the drop and the decoder's send are taken one     *)
(* critical section at a time, with the guards of the three RwLocks:       *)
(* WINDOW_INFO, WindowInfo.sender and EventLoop.receiver.                  *)
(***************************************************************************)
LoopThread == "loop"
WorkerThread == "worker"
Threads == {LoopThread, WorkerThread}

Registry == <<"registry", 0>>
Receiver == <<"receiver", 0>>
Sender(h) == <<"sender", h>>
LockIds == {Registry, Receiver} \cup {Sender(h) : h \in Hwnd}

\* order holds the ids next_event still has to pump, copy the queue cloned
\* under the guard, remove the outcome of the test in drop
Idle == [op |-> "idle", stage |-> "idle", h |-> 0, order |-> <<>>,
         copy |-> <<>>, remove |-> FALSE]

Guard(t, mode) == [t |-> t, mode |-> mode]

\* RwLock::read / RwLock::write return at once
CanLock(l, mode) ==
    IF mode = "write" THEN locks[l] = {}
    ELSE \A g \in locks[l] : g.mode = "read"

\* the lock a thread acquires in its next step
Wanted(t) ==
    LET stage == pc[t].stage
    IN CASE stage = "bind_sender" -> {[l |-> Registry, mode |-> "read"]}
         [] stage = "bind_bind" -> {[l |-> Sender(pc[t].h), mode |-> "write"]}
         [] stage = "copy" -> {[l |-> Receiver, mode |-> "read"]}
         [] stage = "decode_registry" -> {[l |-> Registry, mode |-> "write"]}
         [] stage = "decode_sender" -> {[l |-> Sender(pc[t].h), mode |-> "write"]}
         [] stage = "decode_send" -> {[l |-> Receiver, mode |-> "write"]}
         [] stage = "pop" -> {[l |-> Receiver, mode |-> "write"]}
         [] stage = "events_copy" -> {[l |-> Receiver, mode |-> "write"]}
         [] stage = "events_clear" -> {[l |-> Receiver, mode |-> "write"]}
         [] stage = "drop_remove" -> {[l |-> Registry, mode |-> "write"]}
         [] OTHER -> {}

\* thread t is at stage and the lock of that stage can be taken
At(t, stage) ==
    /\ status = "running"
    /\ pc[t].stage = stage
    /\ \A w \in Wanted(t) : CanLock(w.l, w.mode)

Starts(t) == status = "running" /\ pc[t] = Idle

Released(t, ls) == [l \in LockIds |-> IF l \in ls THEN {g \in locks[l] : g.t # t}
                                      ELSE locks[l]]

\* EventLoop::bind: self.ids.insert(window.id())
ThreadBind(h) ==
    /\ Starts(LoopThread)
    /\ handles[h] >= 1
    /\ ids' = ids \cup {h}
    /\ pc' = [pc EXCEPT ![LoopThread] =
                [Idle EXCEPT !.op = "bind", !.stage = "bind_sender", !.h = h]]
    /\ UNCHANGED <<WINDOW_INFO, poisoned, CLASS_ID, native, handles, events,
                   status, last, sent, taken, lost, posts, removed, destroyed,
                   locks>>

\* window.sender(): read().unwrap().get(&hwnd).unwrap().sender.clone()
BindSender ==
    /\ At(LoopThread, "bind_sender")
    /\ LET absent == ~Registered(St, pc[LoopThread].h)
           s1 == IF poisoned \/ absent THEN Panic(St, FALSE) ELSE St
       IN /\ Apply(s1)
          /\ IF s1.status = "running"
             THEN /\ pc' = [pc EXCEPT ![LoopThread].stage = "bind_bind"]
                  /\ last' = last
             ELSE /\ pc' = [pc EXCEPT ![LoopThread] = Idle]
                  /\ last' = [op |-> "bind", h |-> pc[LoopThread].h,
                              res |-> Outcome(s1)]
    /\ UNCHANGED <<CLASS_ID, handles, ids, taken, posts, locks>>

\* .write().unwrap().bind(self.receiver.clone()) on the sender
BindBind ==
    /\ At(LoopThread, "bind_bind")
    /\ LET h == pc[LoopThread].h
       IN /\ WINDOW_INFO' =
                IF h \in DOMAIN WINDOW_INFO
                THEN [WINDOW_INFO EXCEPT ![h].sender = EventSender_bind(@, Rx)]
                ELSE WINDOW_INFO
          /\ last' = [op |-> "bind", h |-> h, res |-> "Ok"]
    /\ pc' = [pc EXCEPT ![LoopThread] = Idle]
    /\ UNCHANGED <<poisoned, CLASS_ID, native, handles, events, ids, status,
                   sent, taken, lost, posts, removed, destroyed, locks>>

\* EventLoop::next_event is called
ThreadNextEvent ==
    /\ Starts(LoopThread)
    /\ pc' = [pc EXCEPT ![LoopThread] =
                [Idle EXCEPT !.op = "next_event", !.stage = "copy"]]
    /\ UNCHANGED <<WINDOW_INFO, poisoned, CLASS_ID, native, handles, events, ids,
                   status, last, sent, taken, lost, posts, removed, destroyed,
                   locks>>

CopyGuard_kept(t) == {Guard(t, "read")}

\* the guards of the block
\*   { let receiver = self.receiver.read().unwrap(); receiver.events.clone() }
\* that are alive after it
CopyGuard(t) == {}

\* the block that clones the queue, and the test of the clone; the ids are
\* cloned for the pump in some iteration order
NextEventCopy ==
    /\ At(LoopThread, "copy")
    /\ \E order \in Orders(ids) :
         pc' = [pc EXCEPT ![LoopThread].copy = events,
                          ![LoopThread].order =
                              IF ShouldPump(events) THEN order ELSE <<>>,
                          ![LoopThread].stage =
                              IF ShouldPump(events) THEN "peek" ELSE "pop"]
    /\ locks' = [locks EXCEPT ![Receiver] = @ \cup CopyGuard(LoopThread)]
    /\ UNCHANGED <<WINDOW_INFO, poisoned, CLASS_ID, native, handles, events, ids,
                   status, last, sent, taken, lost, posts, removed, destroyed>>

\* id.next_event() for the next id: PeekMessageW; with a message the window
\* procedure runs, without one the loop goes on; after the last id the pump
\* is over
PumpPeek ==
    /\ At(LoopThread, "peek")
    /\ LET order == pc[LoopThread].order
           h == Head(order)
       IN pc' = IF order = <<>>
                THEN [pc EXCEPT ![LoopThread].stage = "pop"]
                ELSE IF native[h].state = "alive" /\ native[h].queue # <<>>
                THEN [pc EXCEPT ![LoopThread].stage = "decode_registry",
                                ![LoopThread].h = h]
                ELSE [pc EXCEPT ![LoopThread].order = Tail(order)]
    /\ UNCHANGED <<WINDOW_INFO, poisoned, CLASS_ID, native, handles, events, ids,
                   status, last, sent, taken, lost, posts, removed, destroyed,
                   locks>>

\* the message loop of the thread that owns the window hands it the next
\* notification
ThreadDispatch(h) ==
    /\ Starts(WorkerThread)
    /\ native[h].state = "alive"
    /\ native[h].queue # <<>>
    /\ pc' = [pc EXCEPT ![WorkerThread] =
                [Idle EXCEPT !.op = "dispatch", !.stage = "decode_registry",
                             !.h = h]]
    /\ UNCHANGED <<WINDOW_INFO, poisoned, CLASS_ID, native, handles, events, ids,
                   status, last, sent, taken, lost, posts, removed, destroyed,
                   locks>>

\* the window procedure: WINDOW_INFO.clone().write().unwrap()
DecodeLockRegistry(t) ==
    /\ At(t, "decode_registry")
    /\ locks' = [locks EXCEPT ![Registry] = @ \cup {Guard(t, "write")}]
    /\ pc' = [pc EXCEPT ![t].stage = "decode_sender"]
    /\ UNCHANGED <<WINDOW_INFO, poisoned, CLASS_ID, native, handles, events, ids,
                   status, last, sent, taken, lost, posts, removed, destroyed>>

\* inside and_modify: v.sender.clone().write().unwrap()
DecodeLockSender(t) ==
    /\ At(t, "decode_sender")
    /\ locks' = [locks EXCEPT ![Sender(pc[t].h)] = @ \cup {Guard(t, "write")}]
    /\ pc' = [pc EXCEPT ![t].stage = "decode_send"]
    /\ UNCHANGED <<WINDOW_INFO, poisoned, CLASS_ID, native, handles, events, ids,
                   status, last, sent, taken, lost, posts, removed, destroyed>>

\* send: r.write().unwrap().recv(id, ev); then the guards of the sender and
\* of the registry are dropped and the window procedure returns
DecodeSend(t) ==
    /\ At(t, "decode_send")
    /\ \E restore \in RestoreLParams :
         LET h == pc[t].h
             s1 == WindowId_next_event(St, h, restore)
         IN /\ Apply(s1)
            /\ last' = IF pc[t].op = "dispatch"
                       THEN [op |-> "dispatch", h |-> h, res |-> Outcome(s1)]
                       ELSE last
    /\ locks' = Released(t, {Registry, Sender(pc[t].h)})
    /\ pc' = IF pc[t].op = "dispatch" THEN [pc EXCEPT ![t] = Idle]
             ELSE [pc EXCEPT ![t].stage = "peek", ![t].order = Tail(@)]
    /\ UNCHANGED <<CLASS_ID, handles, ids, taken, posts>>

\* let mut receiver = self.receiver.write().unwrap();
\* receiver.events.pop_front()
NextEventPop ==
    /\ At(LoopThread, "pop")
    /\ events' = pop_front(events)
    /\ taken' = taken + Len(front(events))
    /\ last' = [op |-> "next_event", h |-> 0, res |-> "Ok", ret |-> front(events),
                pumped |-> ShouldPump(pc[LoopThread].copy)]
    /\ locks' = Released(LoopThread, {Receiver})
    /\ pc' = [pc EXCEPT ![LoopThread] = Idle]
    /\ UNCHANGED <<WINDOW_INFO, poisoned, CLASS_ID, native, handles, ids, status,
                   sent, lost, posts, removed, destroyed>>

\* EventLoop::events is called
ThreadEvents ==
    /\ Starts(LoopThread)
    /\ pc' = [pc EXCEPT ![LoopThread] =
                [Idle EXCEPT !.op = "events", !.stage = "events_copy"]]
    /\ UNCHANGED <<WINDOW_INFO, poisoned, CLASS_ID, native, handles, events, ids,
                   status, last, sent, taken, lost, posts, removed, destroyed,
                   locks>>

\* let evs = self.receiver.write().unwrap().events.clone();
EventsCopy ==
    /\ At(LoopThread, "events_copy")
    /\ pc' = [pc EXCEPT ![LoopThread].copy = events,
                        ![LoopThread].stage = "events_clear"]
    /\ UNCHANGED <<WINDOW_INFO, poisoned, CLASS_ID, native, handles, events, ids,
                   status, last, sent, taken, lost, posts, removed, destroyed,
                   locks>>

\* self.receiver.write().unwrap().events.clear(); evs
EventsClear ==
    /\ At(LoopThread, "events_clear")
    /\ events' = clear(events)
    /\ taken' = taken + Len(pc[LoopThread].copy)
    /\ last' = [op |-> "events", h |-> 0, res |-> "Ok",
                ret |-> pc[LoopThread].copy]
    /\ pc' = [pc EXCEPT ![LoopThread] = Idle]
    /\ UNCHANGED <<WINDOW_INFO, poisoned, CLASS_ID, native, handles, ids, status,
                   sent, lost, posts, removed, destroyed, locks>>

\* the clones of h that no thread is dropping yet
Undropped(h) ==
    handles[h] - Cardinality({t \in Threads : pc[t].op = "drop" /\ pc[t].h = h})

\* a thread drops a clone of the handle: impl Drop for Window is entered
ThreadDrop(t, h) ==
    /\ Starts(t)
    /\ Undropped(h) >= 1
    /\ pc' = [pc EXCEPT ![t] =
                [Idle EXCEPT !.op = "drop", !.stage = "drop_check", !.h = h]]
    /\ UNCHANGED <<WINDOW_INFO, poisoned, CLASS_ID, native, handles, events, ids,
                   status, last, sent, taken, lost, posts, removed, destroyed,
                   locks>>

\* if Arc::strong_count(&self.hwnd) <= 1
DropCheck(t) ==
    /\ At(t, "drop_check")
    /\ pc' = [pc EXCEPT ![t].remove = IsLastHandle(handles[pc[t].h]),
                        ![t].stage = IF IsLastHandle(handles[pc[t].h])
                                     THEN "drop_remove" ELSE "drop_release"]
    /\ UNCHANGED <<WINDOW_INFO, poisoned, CLASS_ID, native, handles, events, ids,
                   status, last, sent, taken, lost, posts, removed, destroyed,
                   locks>>

\* WINDOW_INFO.clone().write().unwrap().remove(&self.hwnd.0)
DropRemove(t) ==
    /\ At(t, "drop_remove")
    /\ LET h == pc[t].h
           s1 == IF poisoned THEN Panic(St, FALSE)
                 ELSE [St EXCEPT !.info = remove(@, h),
                                 !.removed = IF Registered(St, h)
                                             THEN @ \cup {h} ELSE @]
       IN /\ Apply(s1)
          /\ IF s1.status = "running"
             THEN /\ pc' = [pc EXCEPT ![t].stage = "drop_release"]
                  /\ last' = last
             ELSE /\ pc' = [pc EXCEPT ![t] = Idle]
                  /\ last' = [op |-> "drop", h |-> h, res |-> Outcome(s1)]
    /\ UNCHANGED <<CLASS_ID, handles, ids, taken, posts, locks>>

\* after drop() returned the field hwnd is dropped: the Arc is released
DropRelease(t) ==
    /\ At(t, "drop_release")
    /\ handles' = [handles EXCEPT ![pc[t].h] = @ - 1]
    /\ last' = [op |-> "drop", h |-> pc[t].h, res |-> "Ok"]
    /\ pc' = [pc EXCEPT ![t] = Idle]
    /\ UNCHANGED <<WINDOW_INFO, poisoned, CLASS_ID, native, events, ids, status,
                   sent, taken, lost, posts, removed, destroyed, locks>>

Init ==
    /\ WINDOW_INFO = <<>>
    /\ poisoned = FALSE
    /\ CLASS_ID = 0
    /\ native = [h \in Hwnd |-> NativeWindow_free]
    /\ handles = [h \in Hwnd |-> 0]
    /\ events = <<>>
    /\ ids = {}
    /\ status = "running"
    /\ last = [op |-> "new", h |-> 0, res |-> "Ok"]
    /\ sent = 0
    /\ taken = 0
    /\ lost = 0
    /\ posts = 0
    /\ removed = {}
    /\ destroyed = {}
    /\ pc = [t \in Threads |-> Idle]
    /\ locks = [l \in LockIds |-> {}]

Next ==
    \/ TryNew
    \/ \E h \in Hwnd : CloneWindow(h)
    \/ \E h \in Hwnd : DropWindow(h)
    \/ \E h \in Hwnd : Bind(h)
    \/ NextEvent
    \/ Events
    \/ \E h \in Hwnd, f \in AccessorFields : Accessor(h, f)
    \/ \E h \in Hwnd, w \in MinWidths : SetMinWidth(h, w)
    \/ \E h \in Hwnd, m \in Messages : NativePost(h, m)
    \/ \E h \in Hwnd : NativeDispatch(h)
    \/ \E h \in Hwnd : NativeDestroy(h)

Spec == Init /\ [][Next]_vars

\* the runs of the window methods on one window
NextWindow ==
    \/ NewWindow
    \/ \E h \in Hwnd : Bind(h)
    \/ NextEvent
    \/ \E h \in Hwnd, mode \in FullscreenTypes : SetFullscreen(h, mode)
    \/ \E h \in Hwnd : Fullscreen(h)
    \/ \E h \in Hwnd, f \in WindowFields : Accessor(h, f)
    \/ \E h \in Hwnd : Minimize(h)
    \/ \E h \in Hwnd : Maximize(h)
    \/ \E h \in Hwnd : Normalize(h)
    \/ \E h \in Hwnd, w \in Widths : SetWidth(h, w)
    \/ \E h \in Hwnd, ht \in Heights : SetHeight(h, ht)
    \/ \E h \in Hwnd, m \in ResizeMessages : NativeResize(h, m)
    \/ \E h \in Hwnd, m \in SysKeyMessages : NativePost(h, m)

SpecWindow == Init /\ [][NextWindow]_vars

\* the runs of the key and focus decoding on one window
NextInput ==
    \/ NewWindow
    \/ \E h \in Hwnd : Bind(h)
    \/ \E h \in Hwnd : DropWindow(h)
    \/ NextEvent
    \/ \E h \in Hwnd : NativeDispatch(h)
    \/ \E h \in Hwnd : Focus(h)
    \/ \E h \in Hwnd, m \in InputMessages : NativeInput(h, m)

SpecInput == Init /\ [][NextInput]_vars

\* the runs of two threads on one window
NextThreads ==
    \/ NewWindow
    \/ \E h \in Hwnd : CloneWindow(h)
    \/ \E h \in Hwnd, m \in ThreadMessages : NativePost(h, m)
    \/ \E h \in Hwnd : ThreadBind(h)
    \/ BindSender
    \/ BindBind
    \/ ThreadNextEvent
    \/ NextEventCopy
    \/ PumpPeek
    \/ \E h \in Hwnd : ThreadDispatch(h)
    \/ \E t \in Threads : DecodeLockRegistry(t)
    \/ \E t \in Threads : DecodeLockSender(t)
    \/ \E t \in Threads : DecodeSend(t)
    \/ NextEventPop
    \/ ThreadEvents
    \/ EventsCopy
    \/ EventsClear
    \/ \E t \in Threads, h \in Hwnd : ThreadDrop(t, h)
    \/ \E t \in Threads : DropCheck(t)
    \/ \E t \in Threads : DropRemove(t)
    \/ \E t \in Threads : DropRelease(t)

SpecThreads == Init /\ [][NextThreads]_vars

\* the notifications of a burst: a move, and a key going down and up
PumpMessages == ThreadMessages \cup { KeyMessage("LSHIFT", FALSE) }

\* the runs of the event loop over windows with several notifications pending
NextPump ==
    \/ NewWindow
    \/ \E h \in Hwnd : Bind(h)
    \/ \E h \in Hwnd, m \in PumpMessages : NativeQueue(h, m)
    \/ NextEvent
    \/ Events

SpecPump == Init /\ [][NextPump]_vars

\* the same runs with a consumer that keeps calling next_event
SpecPumpFair == SpecPump /\ WF_vars(NextEvent)

\* the runs of the key decoding of the X11 back end
NextXlib ==
    \/ NewWindow
    \/ \E h \in Hwnd : Bind(h)
    \/ \E h \in Hwnd, ev \in XlibEvents : NativeQueue(h, ev)
    \/ \E h \in Hwnd : XlibNextEvent(h)
    \/ Events

SpecXlib == Init /\ [][NextXlib]_vars

\* the runs of the title bar of one window: its buttons and its title
NextButtons ==
    \/ NewWindow
    \/ \E h \in Hwnd, tm \in TitleMemory : SetTitle(h, tm)
    \/ \E h \in Hwnd : Accessor(h, "title")
    \/ \E h \in Hwnd, b \in ButtonSets : SetEnabledButtons(h, b)
    \/ \E h \in Hwnd : Accessor(h, "enabled_buttons")
    \/ \E h \in Hwnd, mode \in FullscreenTypes : SetFullscreen(h, mode)

SpecButtons == Init /\ [][NextButtons]_vars

\* the runs of several windows and handles that share the registry
NextShared ==
    \/ TryNew
    \/ \E h \in Hwnd : CloneWindow(h)
    \/ \E h \in Hwnd : DropWindow(h)
    \/ \E h \in Hwnd : NativeDestroy(h)
    \/ \E h \in Hwnd : ReuseHwnd(h)
    \/ \E h \in Hwnd : DropStale(h)
    \/ \E h \in Hwnd, f \in AccessorFields : Accessor(h, f)
    \/ \E h \in Hwnd, mode \in FullscreenTypes : SetFullscreen(h, mode)

SpecShared == Init /\ [][NextShared]_vars

(***************************************************************************)
(* Properties                                                              *)
(***************************************************************************)
\* the events appended to the queue by the step: what the step returned and
\* what it left queued, as far as it is newer than the old append count
Appended ==
    SelectSeq((IF last'.op = "next_event" THEN last'.ret ELSE <<>>) \o events',
              LAMBDA e : e.seq > sent)

AppendedFor(h) == SelectSeq(Appended, LAMBDA e : e.id = h)

Kinds(q) == [i \in DOMAIN q |-> q[i].ev.kind]

\* C1: the queue holds exactly the events appended and not yet returned, in
\* the order they were appended (within one window and across windows), and
\* an event returned by next_event is the oldest of them: the k-th event
\* handed out is the k-th event appended, nothing lost, doubled or reordered.
C1_FifoExactlyOnce ==
    /\ taken + Len(events) = sent
    /\ \A i \in DOMAIN events : events[i].seq = taken + i
    /\ (last.op = "next_event" /\ last.ret # <<>>) => last.ret[1].seq = taken

C1_Witness ==
    /\ last.op = "next_event"
    /\ last.ret # <<>>
    /\ taken >= 2
    /\ events # <<>>
    /\ events[1].id # last.ret[1].id

\* C2: next_event pumps exactly when it finds the queue empty; on a non-empty
\* queue it returns the oldest event and touches neither the native queues
\* nor the registry; after a pump that appended several events it returns the
\* oldest of them and the others stay queued in order.
C2_PumpOnlyWhenEmpty ==
    [][ last'.op = "next_event" =>
          /\ last'.pumped <=> (events = <<>>)
          /\ events # <<>> =>
               /\ native' = native
               /\ WINDOW_INFO' = WINDOW_INFO
               /\ sent' = sent
               /\ last'.ret = <<Head(events)>>
               /\ events' = Tail(events)
          /\ (events = <<>> /\ status' = "running") =>
               /\ last'.ret = front(Appended)
               /\ events' = pop_front(Appended)
               /\ Len(Appended) = sent' - sent
               /\ \A i \in DOMAIN Appended : Appended[i].seq = sent + i ]_vars

C2_Witness ==
    /\ last.op = "next_event"
    /\ last.pumped
    /\ last.ret # <<>>
    /\ events # <<>>

\* C3: a send on an unbound sender appends nothing, and binding the sender
\* later delivers nothing: the queue grows by exactly the sends made through
\* bound senders, and bind leaves the queue as it is.
C3_UnboundSendIsLost ==
    [][ /\ Len(events') + taken' = Len(events) + taken + (sent' - sent)
        /\ last'.op = "bind" => (events' = events /\ sent' = sent) ]_vars

\* a window that decoded a move before it was bound, then was bound and
\* polled: the Moved event is not delivered
C3_Witness ==
    /\ last.op = "next_event"
    /\ last.ret = <<>>
    /\ sent = 0
    /\ lost >= 2
    /\ \E h \in ids :
         /\ h \in DOMAIN WINDOW_INFO
         /\ WINDOW_INFO[h].sender.receiver # None
         /\ WINDOW_INFO[h].x # CW_USEDEFAULT

\* C4: events() returns exactly the queued events in queue order and leaves
\* the queue empty; what it returns is newer than everything handed out
\* before, so no event is returned by two drains.
C4_DrainReturnsAllAndClears ==
    [][ last'.op = "events" =>
          /\ last'.ret = events
          /\ events' = <<>>
          /\ \A i \in DOMAIN last'.ret : last'.ret[i].seq = taken + i
          /\ taken' = taken + Len(last'.ret) ]_vars

C4_Witness ==
    /\ last.op = "events"
    /\ Len(last.ret) >= 2
    /\ taken > Len(last.ret)

\* C5: dropping the last clone of a handle removes the window's registry
\* entry (a lookup then finds nothing); dropping a clone while another is
\* alive leaves the entry as it is.
C5_LastDropRemovesEntry ==
    [][ \A h \in Hwnd :
          handles'[h] < handles[h] =>
            IF handles[h] = 1
            THEN h \notin DOMAIN WINDOW_INFO'
            ELSE /\ (h \in DOMAIN WINDOW_INFO) <=> (h \in DOMAIN WINDOW_INFO')
                 /\ h \in DOMAIN WINDOW_INFO => WINDOW_INFO'[h] = WINDOW_INFO[h] ]_vars

C5_Witness ==
    /\ last.op = "drop"
    /\ handles[last.h] = 0
    /\ last.h \in removed
    /\ last.h \notin DOMAIN WINDOW_INFO

\* C6: an accessor or mutator called while the window's registry entry is
\* absent reports UnknownWindow (no panic, no default, no silent no-op).
C6_AbsentEntryReportsUnknownWindow ==
    (last.op \in {"get", "set"} /\ last.absent) => last.res = "UnknownWindow"

\* C7: once a window's registry entry has been removed, nothing inserts an
\* entry for that id again.
C7_NoResurrection == \A h \in removed : h \notin DOMAIN WINDOW_INFO

\* C8: when try_new fails, the registry holds no entry for the window that
\* failed to be created.
C8_FailedTryNewLeavesNoEntry ==
    (last.op = "try_new" /\ last.res = "Err" /\ last.h # 0)
        => last.h \notin DOMAIN WINDOW_INFO

C10_DecoderNeverPanics == status # "aborted"

\* C11: set_fullscreen(Exclusive) returns an explicit Unsupported result
\* without panicking, and leaves the window's stored style, restore style,
\* fullscreen mode and geometry as they were.
C11_ExclusiveReportsUnsupported ==
    [][ (last'.op = "set_fullscreen" /\ last'.mode = "Exclusive"
         /\ last'.h \in DOMAIN WINDOW_INFO)
        => /\ last'.res = "Unsupported"
           /\ status' = "running"
           /\ last'.h \in DOMAIN WINDOW_INFO'
           /\ WINDOW_INFO'[last'.h] = WINDOW_INFO[last'.h] ]_vars

\* C12: on a window in NotFullscreen mode, set_fullscreen(Borderless) followed
\* at once by set_fullscreen(NotFullscreen) sets the native style back to the
\* one before entry, requests the geometry before entry, and leaves the
\* stored style equal to the one before entry.
C12_BorderlessRoundTrip ==
    [][ ( /\ last.op = "set_fullscreen" /\ last.mode = "Borderless"
          /\ last.res = "Ok" /\ ~last.absent
          /\ last.before.fullscreen = "NotFullscreen"
          /\ last'.op = "set_fullscreen" /\ last'.mode = "NotFullscreen"
          /\ last'.h = last.h )
        => /\ status' = "running"
           /\ native'[last.h].style = last.before.native_style
           /\ WINDOW_INFO'[last.h].style = last.before.style
           /\ \E i \in DOMAIN last'.calls :
                /\ last'.calls[i].fn = "SetWindowPos"
                /\ last'.calls[i].x = last.before.x
                /\ last'.calls[i].y = last.before.y
                /\ last'.calls[i].cx = last.before.width
                /\ last'.calls[i].cy = last.before.height ]_vars

\* C13: a second consecutive set_fullscreen(Borderless) makes no native
\* request and leaves the restore style taken by the first one.
C13_SameModeIsNoOp ==
    [][ ( /\ last.op = "set_fullscreen" /\ last.mode = "Borderless"
          /\ last.res = "Ok" /\ ~last.absent
          /\ last'.op = "set_fullscreen" /\ last'.mode = "Borderless"
          /\ last'.h = last.h )
        => /\ last'.calls = <<>>
           /\ WINDOW_INFO'[last.h].non_fullscreen_style
                = WINDOW_INFO[last.h].non_fullscreen_style ]_vars

\* C14: right after set_fullscreen(Borderless) returned, fullscreen_type()
\* is Borderless and fullscreen() is true; right after
\* set_fullscreen(NotFullscreen) they are NotFullscreen and false.
C14_FullscreenAccessorMirrorsMutator ==
    [][ ( /\ last.op = "set_fullscreen"
          /\ last.mode \in {"Borderless", "NotFullscreen"}
          /\ last.res = "Ok" /\ ~last.absent
          /\ last'.h = last.h )
        => /\ (last'.op = "get" /\ last'.field = "fullscreen")
                => last'.value = last.mode
           /\ last'.op = "fullscreen"
                => last'.value = (last.mode = "Borderless") ]_vars

\* C15: the stored size_state is always Other, Minimized or Maximized;
\* minimize() makes no native request on a Minimized window and maximize()
\* none on a Maximized one; and the stored size_state changes only in a step
\* in which the window procedure decoded a resize notification (one that was
\* pending, or the one a maximize or restore requested in that step sends).
C15_SizeStateFollowsNotifications ==
    [][ \A h \in Hwnd :
          /\ h \in DOMAIN WINDOW_INFO'
               => WINDOW_INFO'[h].size_state \in WindowSizeStates
          /\ ( /\ last'.op = "minimize" /\ last'.h = h
               /\ h \in DOMAIN WINDOW_INFO
               /\ WINDOW_INFO[h].size_state = "Minimized" )
               => (last'.calls = <<>> /\ last'.res = "Ok")
          /\ ( /\ last'.op = "maximize" /\ last'.h = h
               /\ h \in DOMAIN WINDOW_INFO
               /\ WINDOW_INFO[h].size_state = "Maximized" )
               => (last'.calls = <<>> /\ last'.res = "Ok")
          /\ ( /\ h \in DOMAIN WINDOW_INFO /\ h \in DOMAIN WINDOW_INFO'
               /\ WINDOW_INFO'[h].size_state # WINDOW_INFO[h].size_state )
               => \/ /\ last'.op \in {"minimize", "maximize", "normalize"}
                     /\ last'.h = h
                     /\ last'.sized > 0
                  \/ /\ last'.op = "next_event" /\ last'.pumped
                     /\ native[h].queue # <<>>
                     /\ Head(native[h].queue).msg = "WM_SIZE"
                  \/ /\ last'.op = "next_event" /\ last'.pumped
                     /\ native[h].queue # <<>>
                     /\ Head(native[h].queue).msg \in {"WM_SYSKEYDOWN", "WM_SYSKEYUP"}
                     /\ last'.sized > 0 ]_vars

\* a redundant minimize() after the window was minimized by minimize() and
\* the notification decoded
C15_Witness ==
    /\ last.op = "minimize"
    /\ last.res = "Ok"
    /\ last.calls = <<>>
    /\ last.h \in DOMAIN WINDOW_INFO
    /\ WINDOW_INFO[last.h].size_state = "Minimized"
    /\ native[last.h].show = "minimized"
    /\ posts = 0

\* C16: normalize() on a Minimized window, and on a Maximized one, makes a
\* native restore request.
C16_NormalizeRestores ==
    [][ ( /\ last'.op = "normalize" /\ last'.res = "Ok"
          /\ last'.h \in DOMAIN WINDOW_INFO
          /\ WINDOW_INFO[last'.h].size_state \in {"Minimized", "Maximized"} )
        => last'.calls # <<>> ]_vars

\* C17: set_width(w) on a registered, bound window returns with width w
\* stored and the height as it was, its native request carries the stored
\* position and height, and the poll that follows returns Resized with
\* width w and the old height, leaving size_state Other.
C17_SetWidthResizes ==
    [][ /\ ( /\ last'.op = "set_width" /\ ~last'.absent
             /\ WINDOW_INFO[last'.h].sender.receiver # None )
           => /\ status' = "running"
              /\ WINDOW_INFO'[last'.h].width = last'.width
              /\ WINDOW_INFO'[last'.h].height = WINDOW_INFO[last'.h].height
              /\ last'.calls =
                   << [fn |-> "SetWindowPos",
                       x |-> WINDOW_INFO[last'.h].x, y |-> WINDOW_INFO[last'.h].y,
                       cx |-> last'.width, cy |-> WINDOW_INFO[last'.h].height] >>
        /\ ( /\ last.op = "set_width" /\ ~last.absent /\ last.res = "Ok"
             /\ last.h \in DOMAIN WINDOW_INFO
             /\ WINDOW_INFO[last.h].sender.receiver # None
             /\ last.h \in ids
             /\ events = <<>>
             /\ last'.op = "next_event" )
           => /\ last'.ret # <<>>
              /\ last'.ret[1].id = last.h
              /\ last'.ret[1].ev = [kind |-> "Resized", width |-> last.width,
                                     height |-> WINDOW_INFO[last.h].height]
              /\ WINDOW_INFO'[last.h].size_state = "Other" ]_vars

\* the registered window h decodes the key notification m
Decoded(h, m) == main_wnd_proc(St, h, m, 0).info[h].modifiers

\* the modifiers after the key notifications ms, decoded in turn
RECURSIVE DecodedAll(_, _, _)
DecodedAll(s, h, ms) ==
    IF ms = <<>> THEN s.info[h].modifiers
    ELSE DecodedAll(main_wnd_proc(s, h, Head(ms), 0), h, Tail(ms))

\* the head of the window's native queue is a notification of key k
NextIsKey(h, k, down) ==
    /\ native[h].state = "alive"
    /\ native[h].queue # <<>>
    /\ Head(native[h].queue) = KeyMessage(k, down)

\* the step hands the head of h's native queue to the window procedure
Dispatches(h) ==
    \/ last'.op = "dispatch" /\ last'.h = h
    \/ last'.op = "next_event" /\ last'.pumped /\ h \in ids

\* C18: on a registered window the key-down of Caps Lock or Num Lock flips
\* its bit and no other, the key-up changes nothing; two complete presses of
\* a lock key give back the bitset they started from.
C18_LockKeysToggle ==
    [][ \A h \in DOMAIN WINDOW_INFO, k \in LockKeys :
          LET old == WINDOW_INFO[h].modifiers
              press == <<KeyMessage(k, TRUE), KeyMessage(k, FALSE)>>
          IN /\ (Dispatches(h) /\ NextIsKey(h, k, TRUE)) =>
                  /\ h \in DOMAIN WINDOW_INFO'
                  /\ WINDOW_INFO'[h].modifiers = (old \ {k}) \cup ({k} \ old)
             /\ (Dispatches(h) /\ NextIsKey(h, k, FALSE)) =>
                  /\ h \in DOMAIN WINDOW_INFO'
                  /\ WINDOW_INFO'[h].modifiers = old
             /\ DecodedAll(St, h, press \o press) = old ]_vars

\* Caps Lock was switched on and off again while left shift stayed down: the
\* queued ModifiersChanged events show the bit set and cleared
C18_Witness ==
    /\ Len(events) = 4
    /\ \A i \in 1..4 : events[i].ev.kind = "ModifiersChanged"
    /\ events[1].ev.modifiers = {"LSHIFT"}
    /\ events[2].ev.modifiers = {"LSHIFT", "CAPSLOCK"}
    /\ events[3].ev.modifiers = {"LSHIFT", "CAPSLOCK"}
    /\ events[4].ev.modifiers = {"LSHIFT"}
    /\ \A h \in DOMAIN WINDOW_INFO :
         WINDOW_INFO[h].modifiers = {"LSHIFT"} /\ native[h].down = {"LSHIFT", "CAPSLOCK"}

\* C19: in every state, on every registered window, the bit of a shift, ctrl,
\* alt or system key is set exactly when the last notification of that key
\* handed to the window procedure was a key-down; a key-down sets the bit, a
\* key-up clears it, and both leave every other bit as it was.
C19_LevelKeysFollowNotifications ==
    \A h \in DOMAIN WINDOW_INFO, k \in LevelKeys :
       /\ (k \in WINDOW_INFO[h].modifiers) <=> (k \in native[h].down)
       /\ (status = "running" /\ ~poisoned) =>
            /\ Decoded(h, KeyMessage(k, TRUE)) = WINDOW_INFO[h].modifiers \cup {k}
            /\ Decoded(h, KeyMessage(k, FALSE)) = WINDOW_INFO[h].modifiers \ {k}

\* C20: a Focused(b) event is appended only when b differs from the focused
\* flag stored before the notification.
C20_FocusedOnlyOnChange ==
    [][ \A h \in Hwnd :
          \A i \in DOMAIN AppendedFor(h) :
             AppendedFor(h)[i].ev.kind = "Focused" =>
               /\ h \in DOMAIN WINDOW_INFO
               /\ AppendedFor(h)[i].ev.focused # WINDOW_INFO[h].focused ]_vars

\* the step hands the resize notification at the head of h's native queue
\* to the window procedure
DecodesResize(h, code) ==
    /\ Dispatches(h)
    /\ native[h].state = "alive"
    /\ native[h].queue # <<>>
    /\ Head(native[h].queue).msg = "WM_SIZE"
    /\ Head(native[h].queue).wparam = code

\* h is the only window whose queue the step hands to the window procedure,
\* so what the step sends and requests is what the decode for h sent and
\* requested
DecodesAlone(h) ==
    \A g \in Hwnd \ {h} :
       \/ ~Dispatches(g)
       \/ native[g].state # "alive"
       \/ native[g].queue = <<>>

\* C21: when the window procedure decodes a resize notification of a
\* registered window, a restored one stores the carried width and height,
\* sets size_state to Other and sends exactly one Resized with that width and
\* height; a minimized or maximized one changes size_state only (to Minimized
\* or Maximized) and sends nothing.
C21_ResizeDecode ==
    [][ \A h \in DOMAIN WINDOW_INFO :
          LET old == WINDOW_INFO[h]
              m == Head(native[h].queue)
              width == LOWORD(m.lparam)
              height == HIWORD(m.lparam)
          IN /\ DecodesResize(h, SIZE_RESTORED) =>
                  /\ status' = "running"
                  /\ h \in DOMAIN WINDOW_INFO'
                  /\ WINDOW_INFO'[h] = [old EXCEPT !.width = width,
                                                   !.height = height,
                                                   !.size_state = "Other"]
                  /\ DecodesAlone(h) => (sent' - sent) + (lost' - lost) = 1
                  /\ old.sender.receiver # None =>
                       /\ Len(AppendedFor(h)) = 1
                       /\ AppendedFor(h)[1].ev =
                            [kind |-> "Resized", width |-> width, height |-> height]
             /\ DecodesResize(h, SIZE_MINIMIZED) =>
                  /\ status' = "running"
                  /\ h \in DOMAIN WINDOW_INFO'
                  /\ WINDOW_INFO'[h] = [old EXCEPT !.size_state = "Minimized"]
                  /\ AppendedFor(h) = <<>>
                  /\ DecodesAlone(h) => sent' = sent /\ lost' = lost
             /\ DecodesResize(h, SIZE_MAXIMIZED) =>
                  /\ status' = "running"
                  /\ h \in DOMAIN WINDOW_INFO'
                  /\ WINDOW_INFO'[h] = [old EXCEPT !.size_state = "Maximized"]
                  /\ AppendedFor(h) = <<>>
                  /\ DecodesAlone(h) => sent' = sent /\ lost' = lost ]_vars

\* a window was minimized and then restored by the user: the second poll
\* returned Resized with the restored size, which is the stored size
C21_Witness ==
    /\ last.op = "next_event"
    /\ last.pumped
    /\ posts = 2
    /\ last.ret # <<>>
    /\ last.ret[1].ev = [kind |-> "Resized", width |-> 2, height |-> 1]
    /\ last.ret[1].id \in DOMAIN WINDOW_INFO
    /\ WINDOW_INFO[last.ret[1].id].width = 2
    /\ WINDOW_INFO[last.ret[1].id].height = 1
    /\ WINDOW_INFO[last.ret[1].id].size_state = "Other"
    /\ native[last.ret[1].id].show = "normal"

\* C22: set_width, set_height and set_fullscreen always return: none of them
\* ends with its thread stuck or aborted at the registry lock that it holds
\* itself while the native layer runs the window procedure.
C22_GeometryMutatorsReturn ==
    [][ last'.op \in {"set_width", "set_height", "set_fullscreen"}
        => last'.res \notin RelockResults ]_vars

\* thread t has a guard of lock l alive
Holds(t, l) == \E g \in locks[l] : g.t = t

\* the threads whose guards keep t from taking the lock of its next step
BlockedBy(t) ==
    {u \in Threads : \E w \in Wanted(t) : \E g \in locks[w.l] :
                        g.t = u /\ (w.mode = "write" \/ g.mode = "write")}

\* the order in which the locks nest
Rank(l) == CASE l = Registry -> 1
             [] l = Receiver -> 3
             [] OTHER -> 2

\* next_event is between its clone of the queue and its pop_front
Pumping(t) ==
    /\ pc[t].op = "next_event"
    /\ pc[t].stage \in {"peek", "decode_registry", "decode_sender", "decode_send"}

\* C23: while next_event pumps it has no guard of the receiver alive; a
\* thread only takes a lock that comes after every lock it holds in the order
\* registry, sender, receiver; and no thread waits for a guard of its own or
\* for a thread that is itself kept waiting, so a send that waits for the
\* receiver is let through.
C23_NoChannelDeadlock ==
    \A t \in Threads :
       /\ Pumping(t) => ~Holds(t, Receiver)
       /\ \A w \in Wanted(t), l \in LockIds : Holds(t, l) => Rank(l) < Rank(w.l)
       /\ t \notin BlockedBy(t)
       /\ \A u \in BlockedBy(t) : BlockedBy(u) = {}

\* the pump of next_event is sending under the registry and sender guards
\* while the other thread, dropping the last handle, waits for the registry
C23_Witness ==
    /\ pc[LoopThread].op = "next_event"
    /\ pc[LoopThread].stage = "decode_send"
    /\ Holds(LoopThread, Registry)
    /\ Holds(LoopThread, Sender(pc[LoopThread].h))
    /\ WINDOW_INFO[pc[LoopThread].h].sender.receiver # None
    /\ pc[WorkerThread].stage = "drop_remove"
    /\ BlockedBy(WorkerThread) = {LoopThread}

\* C24: once every clone of a handle has been dropped, on whatever threads
\* and in whatever interleaving of the tests and the releases, the window's
\* registry entry is gone (no notification was decoded meanwhile).
C24_ConcurrentDropsRemoveEntry ==
    ( /\ last.op = "drop" /\ last.res = "Ok"
      /\ handles[last.h] = 0
      /\ \A t \in Threads : pc[t] = Idle
      /\ posts = 0 )
    => last.h \notin DOMAIN WINDOW_INFO

\* C25: an event that is in the queue when events() clears it is part of
\* what events() returns or is still queued afterwards.
C25_DrainKeepsConcurrentAppends ==
    [][ (pc[LoopThread].stage = "events_clear" /\ last'.op = "events"
         /\ pc'[LoopThread] = Idle)
        => \A i \in DOMAIN events :
              \/ \E j \in DOMAIN last'.ret : last'.ret[j].seq = events[i].seq
              \/ \E j \in DOMAIN events' : events'[j].seq = events[i].seq ]_vars


\* the notifications pending for the windows bound to the loop, after a step
PendingBound == {h \in ids' : native'[h].state = "alive" /\ native'[h].queue # <<>>}

\* C26: a next_event call that found the queue empty and returned has decoded
\* every native notification that was pending for a bound window, and a call
\* that returns None leaves no notification pending for any bound window
C26_PumpDrainsAllPending ==
    [][(last'.op = "next_event" /\ last'.res = "Ok" /\ last'.pumped)
        => PendingBound = {}]_vars


\* the ModifiersChanged events among the events q
ModifiersChangedIn(q) == SelectSeq(q, LAMBDA e : e.ev.kind = "ModifiersChanged")

\* what the window procedure of h appends to the queue for the notification m
DecodeAppends(h, m) ==
    LET s1 == main_wnd_proc(St, h, m, 0)
    IN SubSeq(s1.events, Len(events) + 1, Len(s1.events))

\* C27: every key-down and key-up notification of a modifier key (shift,
\* ctrl, alt, system, caps lock, num lock) decoded for a registered window
\* sends exactly one ModifiersChanged, carrying the bitset stored after the
\* notification, also when that bitset is the one stored before.
C27_ModifierKeyAlwaysEmits ==
    (status = "running" /\ ~poisoned) =>
      \A h \in DOMAIN WINDOW_INFO, k \in DOMAIN ModifierKeys, down \in BOOLEAN :
         LET m == KeyMessage(k, down)
             s1 == main_wnd_proc(St, h, m, 0)
             mc == ModifiersChangedIn(DecodeAppends(h, m))
         IN /\ s1.status = "running"
            /\ (s1.sent - sent) + (s1.lost - lost) = 1
            /\ WINDOW_INFO[h].sender.receiver # None =>
                  /\ Len(mc) = 1
                  /\ mc[1].id = h
                  /\ mc[1].ev.modifiers = s1.info[h].modifiers

\* Caps Lock went down and up on a bound window: the queue holds two
\* ModifiersChanged in a row that carry the same bitset
C27_Witness ==
    \E i \in DOMAIN events :
       /\ i + 1 \in DOMAIN events
       /\ events[i].ev.kind = "ModifiersChanged"
       /\ events[i + 1].ev.kind = "ModifiersChanged"
       /\ events[i].id = events[i + 1].id
       /\ events[i].ev.modifiers = events[i + 1].ev.modifiers
       /\ "CAPSLOCK" \in events[i].ev.modifiers


\* the step decodes the key notification at the head of h's queue in the
\* X11 back end
XlibDecodes(h) ==
    /\ last'.op = "xlib_next_event" /\ last'.h = h
    /\ h \in DOMAIN WINDOW_INFO
    /\ native[h].state = "alive"
    /\ native[h].queue # <<>>

\* C28: after the X11 decoder decoded a key press or key release whose state
\* mask maps to the bitset m, the stored bitset is m, and when m differs from
\* the bitset stored before, ModifiersChanged(m) was sent -- also when a
\* modifier was released.
C28_XlibModifiersFollowMask ==
    [][ \A h \in Hwnd :
          XlibDecodes(h) =>
            LET m == Xlib_modifiers(Head(native[h].queue).state)
                mc == ModifiersChangedIn(AppendedFor(h))
            IN /\ h \in DOMAIN WINDOW_INFO'
               /\ WINDOW_INFO'[h].modifiers = m
               /\ (m # WINDOW_INFO[h].modifiers /\ WINDOW_INFO[h].sender.receiver # None)
                    => (Len(mc) = 1 /\ mc[1].ev.modifiers = m) ]_vars


\* the head of h's native queue is a system key notification of Tab or Enter
NextIsSysKey(h) ==
    /\ native[h].state = "alive"
    /\ native[h].queue # <<>>
    /\ Head(native[h].queue).msg \in {"WM_SYSKEYDOWN", "WM_SYSKEYUP"}
    /\ Head(native[h].queue).wparam \in {VK_TAB, VK_RETURN}

InputKinds == {"KeyDown", "KeyUp", "MouseButtonDown", "MouseButtonUp", "ModifiersChanged"}

C30_EnabledButtonsMirrorStyle ==
    [][ (last'.op = "set_enabled_buttons" /\ last'.res = "Ok" /\ ~last'.absent) =>
          LET h == last'.h
              b == last'.buttons
          IN /\ WINDOW_INFO'[h].enabled_buttons = b
             /\ ("WS_MAXIMIZEBOX" \in native'[h].style) <=> ("MAXIMIZE" \in b)
             /\ ("WS_MINIMIZEBOX" \in native'[h].style) <=> ("MINIMIZE" \in b)
             /\ WINDOW_INFO'[h].style = native'[h].style ]_vars


\* C31: after set_title(t) on a registered window, when the set-text
\* notification it causes was decoded, title() returns exactly t -- for
\* every t, the empty string included.
C31_TitleFollowsSetText ==
    [][ (last'.op = "set_title" /\ last'.res = "Ok" /\ ~last'.absent) =>
          WINDOW_INFO'[last'.h].title = last'.title ]_vars


\* C32: when a handle of a destroyed window is dropped after the native
\* layer gave the same handle value to a new window, the registry entry of
\* the new window is neither removed nor changed.
C32_StaleHandleSparesNewWindow ==
    [][ \A h \in DOMAIN WINDOW_INFO :
          (last'.op = "drop_stale" /\ last'.h = h /\ native[h].state = "alive")
            => (h \in DOMAIN WINDOW_INFO' /\ WINDOW_INFO'[h] = WINDOW_INFO[h]) ]_vars


\* C33: when try_new returns a window, the registry entry of that window is
\* the one the notifications decoded during its native creation left there:
\* try_new did not put another entry in its place.
C33_TryNewKeepsCreatedEntry ==
    [][ (last'.op = "try_new" /\ last'.res = "Ok") =>
          LET h == last'.h
              created == CreateWindowExW(
                             [St EXCEPT !.native[h] = NativeWindow_free], h, "ok")
          IN (created.status = "running" /\ h \in DOMAIN created.info)
                => (h \in DOMAIN WINDOW_INFO' /\ WINDOW_INFO'[h] = created.info[h]) ]_vars


\* C34: an Exclusive fullscreen request on one registered window leaves the
\* registry usable for the other registered windows: the lock they all go
\* through is not poisoned afterwards.
C34_FailureSparesOtherWindows ==
    [][ (/\ last'.op = "set_fullscreen"
         /\ last'.mode = "Exclusive"
         /\ ~last'.absent
         /\ DOMAIN WINDOW_INFO' \ {last'.h} # {})
          => ~poisoned' ]_vars


\* a native notification is pending for a live window bound to the loop
Starved == \E h \in ids : native[h].state = "alive" /\ native[h].queue # <<>>

C36_CreatedNeverQueued ==
    /\ \A i \in DOMAIN events : events[i].ev.kind # "Created"
    /\ last.op \in {"next_event", "events"} =>
          \A i \in DOMAIN last.ret : last.ret[i].ev.kind # "Created"

\* a window from try_new was bound and its events are queued, while the
\* Created of its creation went to an unbound sender
C36_Witness ==
    /\ lost >= 1
    /\ events # <<>>
    /\ \E h \in ids : h \in DOMAIN WINDOW_INFO /\ WINDOW_INFO[h].sender.receiver = Rx


\* the state after the window procedure of h decoded the system key-down
\* of Enter and then its system key-up
AltEnterStroke(h, restore) ==
    main_wnd_proc(
        main_wnd_proc(St, h, Msg("WM_SYSKEYDOWN", VK_RETURN, KeyLParam(28, FALSE)), restore),
        h, Msg("WM_SYSKEYUP", VK_RETURN, KeyLParam(28, FALSE)), restore)

\* C37: one complete Alt+Enter keystroke on a registered live window makes
\* exactly one maximize-or-restore request, and the window ends Maximized
\* exactly when it did not start Maximized.
C37_AltEnterTogglesOnce ==
    (status = "running" /\ ~poisoned) =>
      \A h \in DOMAIN WINDOW_INFO, restore \in RestoreLParams :
         native[h].state = "alive" =>
           LET s2 == AltEnterStroke(h, restore)
           IN /\ Len(s2.calls) = 1
              /\ (s2.info[h].size_state = "Maximized")
                   <=> (WINDOW_INFO[h].size_state # "Maximized")


\* the auto-repeat key-down notification of the held key k: bit 30 of the
\* lparam, the previous key state, is set
RepeatMessage(k) ==
    Msg("WM_KEYDOWN", ModifierKeys[k].vk, ModifierKeys[k].lparam + 1073741824)

\* C38: while Caps Lock or Num Lock is held down, an auto-repeat key-down
\* notification of it leaves the modifier bitset of a registered window as
\* it is.
C38_HeldLockKeyFlipsOnce ==
    (status = "running" /\ ~poisoned) =>
      \A h \in DOMAIN WINDOW_INFO, k \in LockKeys :
         k \in native[h].down =>
           Decoded(h, RepeatMessage(k)) = WINDOW_INFO[h].modifiers


\* C39: when the window procedure answers the min/max query of a window, the
\* minimum track size it reports is (min_width, min_height) and the maximum
\* track size (max_width, max_height) as stored for the window, and a window
\* without a registry entry has none afterwards either.
C39_TrackSizesEqualStoredBounds ==
    [][ \A h \in Hwnd :
          ( /\ Dispatches(h)
            /\ native[h].state = "alive"
            /\ native[h].queue # <<>>
            /\ Head(native[h].queue).msg = "WM_GETMINMAXINFO"
            /\ status' = "running" )
            => /\ h \notin DOMAIN WINDOW_INFO => h \notin DOMAIN WINDOW_INFO'
               /\ h \in DOMAIN WINDOW_INFO =>
                    native'[h].mmi = [ min_x |-> WINDOW_INFO[h].min_width,
                                      min_y |-> WINDOW_INFO[h].min_height,
                                      max_x |-> WINDOW_INFO[h].max_width,
                                      max_y |-> WINDOW_INFO[h].max_height ] ]_vars

====
